---- MODULE Spec2Model ----
(***************************************************************************)
(* State-machine model of the brief / agency-plan workflow of              *)
(* src/app/main.py: the relational store (briefs, agency plans, history    *)
(* trail) and the HTTP handlers create_brief, get_upload_url,              *)
(* extract_columns, update_columns, submit_plan and review_plan, together  *)
(* with the request validation of src/app/schemas/submission.py and the    *)
(* role checks of src/app/core/security.py.                                *)
(*                                                                         *)
(* Every handler is one atomic action (one request, one commit).  A        *)
(* handler runs once its dependencies have produced current_user and the   *)
(* request body has been validated, so its inputs are drawn from the users *)
(* that pass the dependency and from the valid bodies.  For each handler   *)
(* h, h_code gives the HTTP status code the request ends with, computed    *)
(* from the handler's checks in their order; the action h is the request   *)
(* that gets as far as the commit.  A request that raises before its       *)
(* commit leaves the store as it is and is no step.  The outcome of the    *)
(* external calls a handler makes (object store, signer, spreadsheet       *)
(* library) is the input `fail`.  `resp` is the status code of the last    *)
(* request that committed.                                                 *)
(*                                                                         *)
(* Spec takes every request as one step.  PipelineSpec takes the requests  *)
(* of extract_columns and update_columns on one plan apart into their      *)
(* steps (download, transform, upload, commit, sign, clean up) and         *)
(* interleaves two of them.  TransformSpec applies the spreadsheet         *)
(* transformer and the adapter of the mapping response to inputs drawn     *)
(* from bounded sets.  GatewaySpec takes the calls of the object store      *)
(* gateway (src/app/core/gcs.py) apart into their steps and overlaps them. *)
(* ReviewSpec takes the calls of review_plan apart into the steps of their *)
(* database sessions and overlaps two of them.                             *)
(***************************************************************************)
EXTENDS Integers, Sequences, FiniteSets, TLC

VARIABLES briefs, plans, history, resp, reqs, local, blobs,
          _storage_client, constructed, env, calls

vars == <<briefs, plans, history, resp, reqs, local, blobs,
          _storage_client, constructed, env, calls>>
db == <<briefs, plans, history>>
\* the file pipeline of extract_columns and update_columns taken step by step: the
\* requests in flight, the files under tmp/ and the objects of the bucket
pipeline == <<reqs, local, blobs>>
\* the object store gateway: its global client, the number of clients constructed
\* so far, the process environment and the calls under way
gateway == <<_storage_client, constructed, env, calls>>

(***************************************************************************)
(* Bounds of the model.                                                    *)
(***************************************************************************)
\* briefs that may be created
MaxBriefs == 2
\* agency plans that may exist over all briefs
MaxPlans == 2
\* history entries that may be appended, over all plans, after the plans' creation
MaxAppends == 2
\* rows and columns of the worksheets the transformer is applied to
MaxRows == 3
MaxSheetCols == 2
\* the largest data_start_row the mapping service reports to the adapter
MaxStartRow == 5

(***************************************************************************)
(* Python values.                                                          *)
(***************************************************************************)
\* Python None where a string is expected
None == "<None>"
\* Python None where a blob path is expected
NoPath == << >>
\* Optional[dict]: << >> is None, <<d>> holds the dict d
NoDict == << >>
Some(d) == <<d>>

\* truthiness of an Optional[str]: None and "" are falsy
Truthy(s) == s # None /\ s # ""

(***************************************************************************)
(* A Python dict is the sequence of its <<key, value>> items in insertion  *)
(* order.                                                                  *)
(***************************************************************************)
DictKeys(d) == {d[i][1] : i \in 1..Len(d)}
DictGet(d, k) == d[CHOOSE i \in 1..Len(d) : d[i][1] = k][2]
\* d[k] = v : an existing key keeps its position, a new key is appended
DictSet(d, k, v) ==
    IF k \in DictKeys(d)
    THEN [i \in 1..Len(d) |-> IF d[i][1] = k THEN <<k, v>> ELSE d[i]]
    ELSE Append(d, <<k, v>>)

(***************************************************************************)
(* Users and tokens (src/app/core/security.py).                            *)
(***************************************************************************)
ID_DS_GROUP == "ds_group"
ID_AG_ALPHA == "alpha"
ID_AG_BETA == "beta"

TOKENS_TO_USERS ==
    [token_ds_admin |->
        [id |-> "u_ds", role |-> "DS_GROUP", client_id |-> ID_DS_GROUP, agency_id |-> None],
     token_agency_alpha |->
        [id |-> "u_alpha", role |-> "AGENCY", client_id |-> None, agency_id |-> ID_AG_ALPHA],
     token_agency_beta |->
        [id |-> "u_beta", role |-> "AGENCY", client_id |-> None, agency_id |-> ID_AG_BETA]]

\* the tokens a request may carry: the three known ones and one that is unknown
Tokens == DOMAIN TOKENS_TO_USERS \cup {"bad_token"}

\* get_current_user: the user of a token, or a 403
get_current_user(token) ==
    IF token \in DOMAIN TOKENS_TO_USERS
    THEN [code |-> 200, user |-> TOKENS_TO_USERS[token]]
    ELSE [code |-> 403, user |-> [id |-> None, role |-> None, client_id |-> None, agency_id |-> None]]

\* verify_ds_group: only role DS_GROUP passes
verify_ds_group(token) ==
    LET r == get_current_user(token)
    IN  IF r.code = 200 /\ r.user.role # "DS_GROUP" THEN [r EXCEPT !.code = 403] ELSE r

\* verify_agency: only role AGENCY passes
verify_agency(token) ==
    LET r == get_current_user(token)
    IN  IF r.code = 200 /\ r.user.role # "AGENCY" THEN [r EXCEPT !.code = 403] ELSE r

\* the users a handler that depends on get_current_user, verify_ds_group or
\* verify_agency can run for
CurrentUsers == {get_current_user(t).user : t \in {x \in Tokens : get_current_user(x).code = 200}}
DsGroupUsers == {verify_ds_group(t).user : t \in {x \in Tokens : verify_ds_group(x).code = 200}}
AgencyUsers == {verify_agency(t).user : t \in {x \in Tokens : verify_agency(x).code = 200}}

\* rows of the agencies table
AgencyTable == {ID_AG_ALPHA, ID_AG_BETA}
agency_name(a) == IF a = ID_AG_ALPHA THEN "Agency Alpha" ELSE "Agency Beta"

(***************************************************************************)
(* The store.  briefs and plans are sequences indexed by the row id;       *)
(* history[p] is the history trail of plan p in creation order.            *)
(***************************************************************************)
BriefIds == 1..Len(briefs)
PlanIds == 1..Len(plans)

\* ids a request may name: every row that can exist
BriefIdArgs == 1..MaxBriefs
PlanIdArgs == 1..MaxPlans

PlansOfBrief(b) == {p \in PlanIds : plans[p].brief_id = b}

HistTotal == LET RECURSIVE Sum(_)
                 Sum(p) == IF p = 0 THEN 0 ELSE Len(history[p]) + Sum(p - 1)
             IN  Sum(Len(history))

Digits == <<"0", "1", "2", "3", "4", "5", "6", "7", "8", "9">>

RECURSIVE Str(_)
Str(k) == IF k < 10 THEN Digits[k + 1] ELSE Str(k \div 10) \o Digits[(k % 10) + 1]

\* models.get_utc_now(): the time of the request. Every request that stamps a
\* row also writes a brief or a history row, so the number of rows written
\* before the request tells the times of two such requests apart when one
\* follows the other
get_utc_now == "utc_" \o Str(Len(briefs) + HistTotal)

\* the entries appended since the plans were created (each plan is created with one)
Appended == HistTotal - Len(plans)

HistoryEntry(p, action, user_id, details, comment) ==
    [agency_plan_id |-> p, action |-> action, user_id |-> user_id,
     details |-> details, comment |-> comment]

\* a store that would put a new entry in front of the existing ones
AddHistory_in_front(h, p, action, user_id, details, comment) ==
    [h EXCEPT ![p] = <<HistoryEntry(p, action, user_id, details, comment)>> \o @]

\* db.add(history) followed by the commit: the entry goes after the existing ones
AddHistory(h, p, action, user_id, details, comment) ==
    [h EXCEPT ![p] = Append(@, HistoryEntry(p, action, user_id, details, comment))]

\* the process environment, as far as the signing of URLs reads it (gcs.py)
\* google.auth.default() raises
AuthRaises == "<raises>"

\* GOOGLE_APPLICATION_CREDENTIALS set or not, SERVICE_ACCOUNT_EMAIL, the
\* service_account_email of the default credentials, the answer of the metadata
\* server (None: no answer)
Environments ==
    [key_file : BOOLEAN,
     SERVICE_ACCOUNT_EMAIL : {None, "env@sa"},
     credentials_email : {None, "default", "cred@sa", AuthRaises},
     metadata_email : {None, "meta@sa"}]

\* the environment of a deployment without a key file
ManagedEnvironment ==
    [key_file |-> FALSE, SERVICE_ACCOUNT_EMAIL |-> None,
     credentials_email |-> "default", metadata_email |-> "meta@sa"]

Init ==
    /\ briefs = << >>
    /\ plans = << >>
    /\ history = << >>
    /\ resp = 0
    /\ reqs = << >>
    /\ local = << >>
    /\ blobs = << >>
    /\ _storage_client = << >>
    /\ constructed = 0
    /\ env = ManagedEnvironment
    /\ calls = << >>

(***************************************************************************)
(* POST /briefs                                                            *)
(***************************************************************************)
\* the target lists a request may carry, "ghost" being an id with no agency row
TargetLists ==
    { << >>, <<ID_AG_ALPHA>>, <<ID_AG_ALPHA, ID_AG_BETA>>,
      <<ID_AG_ALPHA, ID_AG_ALPHA>>, <<"ghost", ID_AG_BETA>> }

\* the targets that have an agency row, in request order
ExistingTargets(targets) == SelectSeq(targets, LAMBDA t : t \in AgencyTable)

\* the value a new row of agency_plans gets in version_number: the declaration
\* of AgencyPlan is not among the source files, the value is the one the
\* specification gives ("starts at 1")
version_number_default == 1

NewPlan(b, a, uid) ==
    [brief_id |-> b, agency_id |-> a, status |-> "DRAFT",
     version_number |-> version_number_default,
     raw_file_path |-> NoPath, flat_file_path |-> NoPath,
     validated_column_file_path |-> NoPath,
     ai_mappings |-> NoDict, human_mappings |-> NoDict,
     plan_file_url |-> NoPath, plan_file_name |-> None,
     submitted_at |-> None,
     created_by |-> uid, updated_by |-> uid]

create_brief(user, targets) ==
    LET b == Len(briefs) + 1
        ags == ExistingTargets(targets)
        n == Len(plans)
    IN  /\ Len(briefs) < MaxBriefs
        /\ Len(plans) + Len(ags) <= MaxPlans
        /\ briefs' = Append(briefs,
               [client_id |-> user.client_id, status |-> "ACTIVE",
                created_by |-> user.id, updated_by |-> user.id,
                updated_at |-> None])
        /\ plans' = plans \o [i \in 1..Len(ags) |-> NewPlan(b, ags[i], user.id)]
        /\ history' = history \o
               [i \in 1..Len(ags) |->
                   << HistoryEntry(n + i, "NEW_BRIEF_CREATED", user.id,
                                   <<"assigned", agency_name(ags[i])>>, None) >>]
        /\ resp' = 200
        /\ UNCHANGED pipeline
        /\ UNCHANGED gateway

(***************************************************************************)
(* Blob paths and the mapping service.                                     *)
(***************************************************************************)
RawPath(b, p) == <<"brief_media_files", b, p, "raw", "plan.xlsx">>
\* the older name of the raw blob, "{brief_id}/{plan.id}/raw/plan.xlsx": no root
OldRawPath(b, p) == <<"", b, p, "raw", "plan.xlsx">>
FlatPath(b, p) == <<"brief_media_files", b, p, "flat", "plan_flat.xlsx">>
\* a path of the validated stage that would leave the plan out
ValidatedPath_of_the_brief(b, p) == <<"brief_media_files", b, 0, "validated", "plan_final.xlsx">>

ValidatedPath(b, p) == <<"brief_media_files", b, p, "validated", "plan_final.xlsx">>

\* the largest column index the mapping service reports
MaxCol == 34

\* str(k) of a non-negative int
\* int(s) succeeds on the decimal strings; on anything else it raises ValueError
IntStrs == {Str(k) : k \in 0..MaxCol}
IsIntStr(s) == s \in IntStrs
IntOf(s) == CHOOSE k \in 0..MaxCol : Str(k) = s

\* the "mappings" of the map-columns response: <<source_column_index, target_field>>
MockMappings ==
    << <<0, "programme">>, <<1, "channel_name">>, <<2, "day">>, <<3, "time">>,
       <<12, "average_duration">>, <<6, "week1">>, <<11, "spots">>, <<12, "fct">>,
       <<14, "gross.cost">>, <<15, "gross.rate">>, <<16, "nett.cost">>,
       <<17, "nett.rate">>, <<18, "disp">>, <<19, "as_per_brk_tvr_hsm.tvr">>,
       <<20, "as_per_brk_tvr_hsm.grp">>, <<21, "as_per_brk_tvr_hsm.10secgrp">>,
       <<22, "as_per_brk_tvr_hsm.cprp">>, <<23, "hsm_market_details.aots">>,
       <<24, "hsm_market_details.reach">>, <<25, "hsm_market_details.cpt">>,
       <<26, "hsm_market_details.1">>, <<27, "hsm_market_details.2">>,
       <<28, "hsm_market_details.3">>, <<29, "hsm_market_details.4">>,
       <<30, "hsm_market_details.5">>, <<31, "as_per_brk_tvr_p1_market.tvr">>,
       <<32, "as_per_brk_tvr_p1_market.grp">>,
       <<33, "as_per_brk_tvr_p1_market.10secgrp">>,
       <<34, "as_per_brk_tvr_p1_market.cprp">> >>

\* the "unmapped_source_columns" of the response: their source_column_index
MockUnmapped == <<4, 5, 7, 8, 9, 10>>

MockDataStartRow == 5

_mock_senior_api_extract ==
    [mappings |-> MockMappings, unmapped_source_columns |-> MockUnmapped,
     data_start_row |-> MockDataStartRow]

\* ai_mappings[idx] = target over the mapped entries, in order
RECURSIVE FoldMappings(_, _)
FoldMappings(ms, d) ==
    IF ms = << >> THEN d
    ELSE FoldMappings(Tail(ms), DictSet(d, Head(ms)[1], Head(ms)[2]))

\* agent_resp.get(key, default)
dict_get(d, key, default) == IF key \in DOMAIN d THEN d[key] ELSE default

_transform_senior_api_response(agent_resp) ==
    [header_row |-> dict_get(agent_resp, "data_start_row", 0) - 1,
     ai_mappings |-> FoldMappings(dict_get(agent_resp, "mappings", << >>), << >>)]

\* {str(k): v for k, v in d.items()}
StrKeys(d) == [i \in 1..Len(d) |-> <<Str(d[i][1]), d[i][2]>>]

\* what extract_columns gets from the mapping service, and what it stores
transformed_resp == _transform_senior_api_response(_mock_senior_api_extract)
db_mappings == StrKeys(transformed_resp.ai_mappings)

(***************************************************************************)
(* The spreadsheet transformer (_process_excel_extract).  A worksheet is   *)
(* the cells that exist in it, <<row, column>> |-> value, as openpyxl      *)
(* keeps them; a cell that does not exist reads as empty.                  *)
(***************************************************************************)
EmptyCell == None

SetMax(S) == CHOOSE x \in S : \A y \in S : y <= x
max_row(ws) == IF DOMAIN ws = {} THEN 1 ELSE SetMax({k[1] : k \in DOMAIN ws})
max_column(ws) == IF DOMAIN ws = {} THEN 1 ELSE SetMax({k[2] : k \in DOMAIN ws})

\* ws.cell(row, column).value
CellAt(ws, row, column) ==
    IF <<row, column>> \in DOMAIN ws THEN ws[<<row, column>>] ELSE EmptyCell

\* ws.move_range("A{first}:{max_col}{last}", rows=-offset): every cell of the range,
\* created empty if it does not exist, goes offset rows up and leaves its place
move_range(ws, first, last, max_col, offset) ==
    LET src == (first..last) \X (1..max_col)
        dst == {<<k[1] - offset, k[2]>> : k \in src}
    IN  [k \in ((DOMAIN ws \ src) \cup dst) |->
            IF k \in dst THEN CellAt(ws, k[1] + offset, k[2]) ELSE ws[k]]

\* ws.delete_rows(idx, amount): the cells below the deleted rows go amount rows up,
\* then the rows left over at the end (the gutter) lose their cells
delete_rows(ws, idx, amount) ==
    LET mr == max_row(ws)
        lo == IF mr + 1 - amount > idx THEN mr + 1 - amount ELSE idx
        hi == IF idx + amount < mr THEN idx + amount ELSE mr
        below == {k \in DOMAIN ws : k[1] >= idx + amount}
        up == {<<k[1] - amount, k[2]>> : k \in below}
        shifted == [k \in ((DOMAIN ws \ below) \cup up) |->
                       IF k \in up THEN ws[<<k[1] + amount, k[2]>>] ELSE ws[k]]
    IN  [k \in {x \in DOMAIN shifted : x[1] \notin lo..hi} |-> shifted[k]]

\* a crop that would leave the rows it moved away from in the sheet
CropRows_without_delete(ws, header_row) ==
    IF header_row > 1
    THEN move_range(ws, header_row, max_row(ws), max_column(ws), header_row - 1)
    ELSE ws

\* step 1 of _process_excel_extract: the header row becomes row 1
CropRows(ws, header_row) ==
    IF header_row > 1
    THEN LET offset == header_row - 1
             m == max_row(ws)
         IN  delete_rows(move_range(ws, header_row, m, max_column(ws), offset),
                         m - offset + 1, offset)
    ELSE ws

\* the range A{header_row}:..{max_row} is no range when header_row is below the
\* last row: move_range raises ValueError
CropRaises(ws, header_row) == header_row > 1 /\ header_row > max_row(ws)

\* a renaming that would write every cell of row 1, an empty name where the
\* mapping has none
RenameHeaders_blanking_the_rest(ws, mappings) ==
    LET named == {<<1, mappings[i][1] + 1>> : i \in 1..Len(mappings)}
        row1 == {k \in DOMAIN ws : k[1] = 1}
    IN  [k \in (DOMAIN ws \cup named) |->
            IF k \in named THEN DictGet(mappings, k[2] - 1)
            ELSE IF k \in row1 THEN "" ELSE ws[k]]

\* step 2: the cells of row 1 at the mapped columns take the mapped names;
\* mappings is a dict {column index from 0: name}
RenameHeaders(ws, mappings) ==
    LET named == {<<1, mappings[i][1] + 1>> : i \in 1..Len(mappings)}
    IN  [k \in (DOMAIN ws \cup named) |->
            IF k \in named THEN DictGet(mappings, k[2] - 1) ELSE ws[k]]

_process_excel_extract(ws, header_row, mappings) ==
    RenameHeaders(CropRows(ws, header_row), mappings)

(***************************************************************************)
(* External calls.  A handler's external calls run in a fixed order; the   *)
(* input `fail` names the first of them that raises, "none" if none does.  *)
(***************************************************************************)
UploadUrlFailures == {"none", "sign"}
PipelineFailures == {"none", "download", "excel", "upload", "sign"}

\* a query that would not filter by the agency
OwnedPlan_of_any_agency(plan_id, brief_id, agency_id) ==
    IF plan_id \in PlanIds /\ plans[plan_id].brief_id = brief_id THEN plan_id ELSE 0

\* the plan a query filtered by id, brief and agency returns: 0 when there is no row
OwnedPlan(plan_id, brief_id, agency_id) ==
    IF /\ plan_id \in PlanIds
       /\ plans[plan_id].brief_id = brief_id
       /\ plans[plan_id].agency_id = agency_id
    THEN plan_id ELSE 0

(***************************************************************************)
(* GET /briefs/{brief_id}/plans/{plan_id}/upload-url                       *)
(***************************************************************************)
get_upload_url_code(current_user, brief_id, plan_id, fail) ==
    IF OwnedPlan(plan_id, brief_id, current_user.agency_id) = 0 THEN 404
    ELSE IF fail = "sign" THEN 502
    ELSE 200

get_upload_url(current_user, brief_id, plan_id) ==
    LET p == OwnedPlan(plan_id, brief_id, current_user.agency_id)
    IN  /\ get_upload_url_code(current_user, brief_id, plan_id, "none") = 200
        /\ plans' = [plans EXCEPT ![p].raw_file_path = RawPath(brief_id, p)]
        /\ resp' = 200
        /\ UNCHANGED pipeline
        /\ UNCHANGED gateway
        /\ UNCHANGED <<briefs, history>>

(***************************************************************************)
(* GET /briefs/{brief_id}/plans/{plan_id}/extract-columns                  *)
(***************************************************************************)
\* the signed URL is asked for after the commit: its failure ends a request
\* that has committed
extract_columns_code(current_user, brief_id, plan_id, fail) ==
    IF OwnedPlan(plan_id, brief_id, current_user.agency_id) = 0 THEN 404
    ELSE IF fail = "download" THEN 404
    ELSE IF fail \in {"excel", "upload"} THEN 500
    ELSE IF fail = "sign" THEN 502
    ELSE 200

extract_columns(current_user, brief_id, plan_id) ==
    LET p == OwnedPlan(plan_id, brief_id, current_user.agency_id)
    IN  /\ extract_columns_code(current_user, brief_id, plan_id, "none") = 200
        /\ plans' = [plans EXCEPT ![p].flat_file_path = FlatPath(brief_id, plan_id),
                                  ![p].ai_mappings = Some(db_mappings)]
        /\ UNCHANGED pipeline
        /\ UNCHANGED gateway
        /\ \E fail \in {"none", "sign"} :
               resp' = extract_columns_code(current_user, brief_id, plan_id, fail)
        /\ UNCHANGED <<briefs, history>>

\* schemas_plan.yaml as the process finds it: << >> when it cannot be read or
\* parsed, else <<the columns it declares>>
SchemaYamls ==
    { << >>,
      << [mandatory |-> <<"programme", "channel_name">>, optional |-> <<"day">>] >>,
      << [mandatory |-> <<"programme", "impressions", "cost">>, optional |-> << >>] >> }

_get_schema_columns(yaml) ==
    IF yaml = << >> THEN [mandatory |-> << >>, optional |-> << >>] ELSE yaml[1]

\* the body of the answer of a request that gets to the end of extract_columns
extract_columns_response(yaml) ==
    [aiMappings |-> db_mappings,
     requiredColumns |-> _get_schema_columns(yaml).mandatory,
     optionalColumns |-> _get_schema_columns(yaml).optional]

(***************************************************************************)
(* POST /briefs/{brief_id}/plans/{plan_id}/validate-columns                *)
(* The validation service it calls returns None, so the handler raises on  *)
(* the first subscript of the result, before it touches the plan: no       *)
(* request to it commits, and it has no action.                            *)
(***************************************************************************)
_external_validation_service_mock == None

validate_columns_code(current_user, brief_id, plan_id) ==
    IF OwnedPlan(plan_id, brief_id, current_user.agency_id) = 0 THEN 404
    ELSE IF _external_validation_service_mock = None THEN 500
    ELSE 200

(***************************************************************************)
(* POST /briefs/{brief_id}/plans/{plan_id}/update-columns                  *)
(***************************************************************************)
\* the humanMappings a request may carry
HumanPayloads == { << <<"0", "brand">> >>, << <<"1", "">> >> }

\* the AI mapping overridden by the truthy entries of the payload
RECURSIVE MergeMappings(_, _)
MergeMappings(final, human) ==
    IF human = << >> THEN final
    ELSE MergeMappings(
            IF Head(human)[2] # "" THEN DictSet(final, Head(human)[1], Head(human)[2])
            ELSE final,
            Tail(human))

\* a merge in which the AI mapping would win over the payload
final_mappings_ai_over_human(p, human_mappings) ==
    MergeMappings(human_mappings,
                  IF plans[p].ai_mappings # NoDict THEN plans[p].ai_mappings[1] ELSE << >>)

\* final_mappings of update_columns for plan p
final_mappings(p, human_mappings) ==
    MergeMappings(IF plans[p].ai_mappings # NoDict THEN plans[p].ai_mappings[1] ELSE << >>,
                  human_mappings)

\* every failure inside the try block is a 500, also that of the signed URL,
\* which is asked for after the commit
update_columns_code(current_user, brief_id, plan_id, human_mappings, fail) ==
    LET p == OwnedPlan(plan_id, brief_id, current_user.agency_id)
    IN  IF p = 0 THEN 404
        ELSE IF fail = "download" THEN 500
        ELSE IF \E k \in DictKeys(final_mappings(p, human_mappings)) : ~IsIntStr(k) THEN 500
        ELSE IF fail # "none" THEN 500
        ELSE 200

update_columns(current_user, brief_id, plan_id, human_mappings) ==
    LET p == OwnedPlan(plan_id, brief_id, current_user.agency_id)
        validated_blob == ValidatedPath(brief_id, p)
    IN  /\ update_columns_code(current_user, brief_id, plan_id, human_mappings, "none") = 200
        /\ Appended < MaxAppends
        /\ plans' = [plans EXCEPT ![p].human_mappings = Some(human_mappings),
                                  ![p].validated_column_file_path = validated_blob,
                                  ![p].plan_file_url = validated_blob,
                                  ![p].plan_file_name = "plan_final.xlsx"]
        /\ history' = AddHistory(history, p, "COLUMNS_UPDATED", current_user.id,
                                 "User confirmed/updated column mappings.", None)
        /\ UNCHANGED pipeline
        /\ UNCHANGED gateway
        /\ \E fail \in {"none", "sign"} : resp' = IF fail = "sign" THEN 500 ELSE 200
        /\ UNCHANGED briefs

(***************************************************************************)
(* POST /briefs/{brief_id}/submit                                          *)
(***************************************************************************)
\* the comments a request may carry: absent, empty, non-empty
Comments == {None, "", "c"}

\* the rows the query filtered by brief and agency matches; .first() without an
\* ORDER BY returns any one of them
SlotsOf(brief_id, agency_id) ==
    {p \in PlanIds : plans[p].brief_id = brief_id /\ plans[p].agency_id = agency_id}

\* a handler that would not look for the agency's plan under the brief
submit_plan_code_any_brief(current_user, brief_id) == 200

submit_plan_code(current_user, brief_id) ==
    IF SlotsOf(brief_id, current_user.agency_id) = {} THEN 404 ELSE 200

\* a submit that would also put the brief back to ACTIVE
submit_plan_at_resetting_brief(current_user, brief_id, comment, p) ==
    /\ p \in SlotsOf(brief_id, current_user.agency_id)
    /\ Appended < MaxAppends
    /\ plans' = [plans EXCEPT ![p].status = "PENDING_REVIEW",
                              ![p].submitted_at = get_utc_now,
                              ![p].updated_by = current_user.id]
    /\ history' = AddHistory(history, p, "PLAN_SUBMITTED", current_user.id,
                             IF Truthy(comment) THEN comment
                             ELSE "Plan submitted for review.", None)
    /\ resp' = 200
    /\ UNCHANGED pipeline
    /\ UNCHANGED gateway
    /\ briefs' = [briefs EXCEPT ![brief_id].status = "ACTIVE"]

\* the request for brief_id that the query answers with plan p
submit_plan_at(current_user, brief_id, comment, p) ==
    /\ p \in SlotsOf(brief_id, current_user.agency_id)
    /\ Appended < MaxAppends
    /\ plans' = [plans EXCEPT ![p].status = "PENDING_REVIEW",
                              ![p].submitted_at = get_utc_now,
                              ![p].updated_by = current_user.id]
    /\ history' = AddHistory(history, p, "PLAN_SUBMITTED", current_user.id,
                             IF Truthy(comment) THEN comment
                             ELSE "Plan submitted for review.", None)
    /\ resp' = 200
    /\ UNCHANGED pipeline
    /\ UNCHANGED gateway
    /\ UNCHANGED briefs

submit_plan(current_user, brief_id, comment) ==
    /\ submit_plan_code(current_user, brief_id) = 200
    /\ \E p \in PlanIds : submit_plan_at(current_user, brief_id, comment, p)

(***************************************************************************)
(* POST /briefs/{brief_id}/plans/{plan_id}/review                          *)
(***************************************************************************)
\* the status a review request may carry: absent, or one of the Literal's values
ReviewStatuses == {None, "APPROVED", "REJECTED"}

\* a validator that would test the fields for presence instead of truthiness
check_exclusive_or_by_presence(status, comment) ==
    (status # None) # (comment # None)

\* ReviewSubmissionRequest.check_exclusive_or: TRUE when the request is accepted
check_exclusive_or(status, comment) ==
    /\ ~(Truthy(status) /\ Truthy(comment))
    /\ ~(~Truthy(status) /\ ~Truthy(comment))

\* an aggregation that would put the brief back to ACTIVE when its plans are
\* neither all approved nor one of them rejected
AggregateStatus_back_to_active(old, all_plans) ==
    LET approved_count == Cardinality({p \in DOMAIN all_plans : all_plans[p].status = "APPROVED"})
        rejected_count == Cardinality({p \in DOMAIN all_plans : all_plans[p].status = "REJECTED"})
    IN  IF approved_count = Cardinality(DOMAIN all_plans) THEN "APPROVED"
        ELSE IF rejected_count > 0 THEN "REJECTED"
        ELSE "ACTIVE"

\* an aggregation that would approve the brief as soon as one plan is approved
AggregateStatus_any_approved(old, all_plans) ==
    IF \E p \in DOMAIN all_plans : all_plans[p].status = "APPROVED" THEN "APPROVED"
    ELSE IF \E p \in DOMAIN all_plans : all_plans[p].status = "REJECTED" THEN "REJECTED"
    ELSE old

\* the brief status the aggregation block leaves, given the brief's plans after the
\* update of the reviewed one
AggregateStatus(old, all_plans) ==
    LET approved_count == Cardinality({p \in DOMAIN all_plans : all_plans[p].status = "APPROVED"})
        rejected_count == Cardinality({p \in DOMAIN all_plans : all_plans[p].status = "REJECTED"})
    IN  IF approved_count = Cardinality(DOMAIN all_plans) THEN "APPROVED"
        ELSE IF rejected_count > 0 THEN "REJECTED"
        ELSE old

\* the rows of brief_id among the plans `ps`, as a function of their ids
PlansIn(ps, brief_id) ==
    [p \in {q \in DOMAIN ps : ps[q].brief_id = brief_id} |-> ps[p]]

\* the request bodies that pass validation and reach the handler
ReviewSubmissionRequest ==
    {r \in [status : ReviewStatuses, comment : Comments] :
        check_exclusive_or(r.status, r.comment)}

\* a handler without the check that keeps agency users from changing the status
review_plan_code_without_status_check(current_user, brief_id, plan_id, review) ==
    LET found == plan_id \in PlanIds /\ plans[plan_id].brief_id = brief_id
        is_ds_group == current_user.role = "DS_GROUP"
        is_agency_owner == /\ current_user.role = "AGENCY"
                           /\ plans[plan_id].agency_id = current_user.agency_id
    IN  IF ~found THEN 404
        ELSE IF ~(is_ds_group \/ is_agency_owner) THEN 403
        ELSE 200

review_plan_code(current_user, brief_id, plan_id, review) ==
    LET found == plan_id \in PlanIds /\ plans[plan_id].brief_id = brief_id
        is_ds_group == current_user.role = "DS_GROUP"
        is_agency_owner == /\ current_user.role = "AGENCY"
                           /\ plans[plan_id].agency_id = current_user.agency_id
        has_status_change == review.status # None
    IN  IF ~found THEN 404
        ELSE IF ~(is_ds_group \/ is_agency_owner) THEN 403
        ELSE IF ~is_ds_group /\ has_status_change THEN 403
        ELSE 200

\* a handler that would run the aggregation block on every review
RunsAggregation_on_every_review(current_user, review) == TRUE

\* whether the request runs the block that recomputes the brief's status
RunsAggregation(current_user, review) ==
    review.status # None /\ current_user.role = "DS_GROUP"

review_plan(current_user, brief_id, plan_id, review) ==
    LET has_status_change == review.status # None
        old_status == plans[plan_id].status
        new_plans == [plans EXCEPT
                        ![plan_id].status = IF has_status_change THEN review.status ELSE @,
                        ![plan_id].updated_by = current_user.id]
    IN  /\ review_plan_code(current_user, brief_id, plan_id, review) = 200
        /\ Appended < MaxAppends
        /\ plans' = new_plans
        /\ history' =
             IF has_status_change
             THEN AddHistory(history, plan_id, "STATUS_CHANGE", current_user.id,
                             <<"Status changed", old_status, review.status>>, review.comment)
             ELSE AddHistory(history, plan_id, "COMMENT_ADDED", current_user.id,
                             "A new comment was added to the plan history.", review.comment)
        /\ briefs' =
             IF RunsAggregation(current_user, review) /\ brief_id \in BriefIds
             THEN [briefs EXCEPT
                     ![brief_id].status = AggregateStatus(@, PlansIn(new_plans, brief_id)),
                     ![brief_id].updated_at = get_utc_now,
                     ![brief_id].updated_by = current_user.id]
             ELSE briefs
        /\ resp' = 200
        /\ UNCHANGED pipeline
        /\ UNCHANGED gateway

(***************************************************************************)
(* GET /briefs, GET /briefs/{brief_id}, GET /briefs/{brief_id}/plans/{id}. *)
(* The reads change nothing; each is the answer it gives in a state.       *)
(***************************************************************************)
\* a brief shows all of its plans to DS_GROUP and an agency's own plans to the agency
VisiblePlan_to_everyone(current_user, p) == TRUE

VisiblePlan(current_user, p) ==
    current_user.role = "DS_GROUP" \/ plans[p].agency_id = current_user.agency_id

\* AgencyPlanSummary.model_validate(p)
AgencyPlanSummary(p) ==
    [id |-> p, agency_id |-> plans[p].agency_id, agency_name |-> agency_name(plans[p].agency_id),
     status |-> plans[p].status, submitted_at |-> plans[p].submitted_at]

filtered_plans(current_user, b) ==
    {AgencyPlanSummary(p) : p \in {q \in PlansOfBrief(b) : VisiblePlan(current_user, q)}}

\* the target agencies reconstructed from the brief's plans, an agency seeing itself only
visible_ids(current_user, b) ==
    LET all_target_ids == {plans[p].agency_id : p \in PlansOfBrief(b)}
    IN  IF current_user.role = "AGENCY"
        THEN {aid \in all_target_ids : aid = current_user.agency_id}
        ELSE all_target_ids

brief_data(current_user, b) ==
    [id |-> b, status |-> briefs[b].status,
     creator |-> briefs[b].created_by, updater |-> briefs[b].updated_by,
     targetAgencies |-> {[id |-> a, name |-> agency_name(a)] : a \in visible_ids(current_user, b)},
     agencyPlans |-> filtered_plans(current_user, b)]

\* the briefs the first query of list_briefs returns
db_briefs(current_user) ==
    IF current_user.role = "DS_GROUP" THEN BriefIds
    ELSE {b \in BriefIds : SlotsOf(b, current_user.agency_id) # {}}

list_briefs(current_user) == {brief_data(current_user, b) : b \in db_briefs(current_user)}

get_brief_detail_code(current_user, brief_id) ==
    IF brief_id \notin BriefIds THEN 404
    ELSE IF current_user.role = "AGENCY" /\ SlotsOf(brief_id, current_user.agency_id) = {} THEN 403
    ELSE 200

get_brief_detail(current_user, brief_id) == brief_data(current_user, brief_id)

get_plan_detail_code(current_user, brief_id, plan_id) ==
    IF ~(plan_id \in PlanIds /\ plans[plan_id].brief_id = brief_id) THEN 404
    ELSE IF current_user.role = "AGENCY" /\ plans[plan_id].agency_id # current_user.agency_id THEN 403
    ELSE 200

get_plan_detail(plan_id) ==
    LET plan == plans[plan_id]
    IN  [id |-> plan_id, agencyId |-> plan.agency_id, agencyName |-> agency_name(plan.agency_id),
         status |-> plan.status, submittedAt |-> plan.submitted_at,
         planFileName |-> IF Truthy(plan.plan_file_name) THEN plan.plan_file_name ELSE "Plan",
         planFileUrl |-> IF plan.plan_file_url # NoPath THEN plan.plan_file_url ELSE RawPath(1, 1),
         creator |-> plan.created_by, updater |-> plan.updated_by,
         history |-> history[plan_id]]

(***************************************************************************)
(* The object store gateway (src/app/core/gcs.py).  _storage_client is the *)
(* module's global; a client object is named by the number of the          *)
(* construction that made it.  The handlers run on worker threads, so      *)
(* calls of the gateway overlap: a call is a record of its operation, its  *)
(* place (pc) and its local variables.  env is the process environment, as *)
(* far as the signing of URLs reads it.                                    *)
(***************************************************************************)
\* calls of the gateway in one run
MaxCalls == 2

Operations ==
    {"get_signed_url", "download_file", "upload_file", "read_file", "delete_blob", "list_blobs"}

\* _get_service_account_email(): everything after the environment variable is
\* inside one try, so a raising google.auth.default() ends the search with None
_get_service_account_email(e) ==
    IF e.SERVICE_ACCOUNT_EMAIL # None THEN e.SERVICE_ACCOUNT_EMAIL
    ELSE IF e.credentials_email = AuthRaises THEN None
    ELSE IF e.credentials_email \notin {None, "default"} THEN e.credentials_email
    ELSE e.metadata_email

GCSOperationError == [kind |-> "GCSOperationError", signer |-> None, identity |-> None]
Done(kind) == [kind |-> kind, signer |-> None, identity |-> None]
SignedUrl(signer, identity) == [kind |-> "url", signer |-> signer, identity |-> identity]

\* what a call of the gateway leaves alone
outside == <<env, briefs, plans, history, resp, pipeline>>

NewCall(op) ==
    [op |-> op, pc |-> "get_client", client |-> << >>, returned |-> << >>,
     email |-> None, attempted |-> {}, failure |-> None, result |-> << >>]

gcs_call(op) ==
    /\ Len(calls) < MaxCalls
    /\ calls' = Append(calls, NewCall(op))
    /\ UNCHANGED <<_storage_client, constructed, outside>>

Return(c, result) == calls' = [calls EXCEPT ![c].result = <<result>>, ![c].pc = "done"]

\* _get_storage_client(): the test `_storage_client is None`; the global is
\* returned when it is set
_get_storage_client(c) ==
    /\ calls[c].pc = "get_client"
    /\ calls' = IF _storage_client = << >>
                THEN [calls EXCEPT ![c].pc = "init_client"]
                ELSE [calls EXCEPT ![c].client = _storage_client,
                                   ![c].returned = @ \o _storage_client,
                                   ![c].pc = "have_client"]
    /\ UNCHANGED <<_storage_client, constructed, outside>>

\* _storage_client = storage.Client() succeeds, and the global is returned
storage_Client(c) ==
    /\ calls[c].pc = "init_client"
    /\ constructed' = constructed + 1
    /\ _storage_client' = <<constructed + 1>>
    /\ calls' = [calls EXCEPT ![c].client = <<constructed + 1>>,
                              ![c].returned = Append(@, constructed + 1),
                              ![c].pc = "have_client"]
    /\ UNCHANGED outside

\* storage.Client() raises: None is returned, the global stays None
storage_Client_raises(c) ==
    /\ calls[c].pc = "init_client"
    /\ calls' = [calls EXCEPT ![c].failure = "client", ![c].pc = "have_client"]
    /\ UNCHANGED <<_storage_client, constructed, outside>>

\* `if not client`: get_signed_url returns a URL that is not signed, _get_bucket
\* raises in the other operations
without_client(c) ==
    /\ calls[c].pc = "have_client"
    /\ calls[c].client = << >>
    /\ Return(c, IF calls[c].op = "get_signed_url" THEN SignedUrl("mock", None)
                 ELSE GCSOperationError)
    /\ UNCHANGED <<_storage_client, constructed, outside>>

\* _get_bucket(): in get_signed_url it asks _get_storage_client() once more,
\* which finds the global set
_get_bucket(c) ==
    /\ calls[c].pc = "have_client"
    /\ calls[c].client # << >>
    /\ calls' = IF calls[c].op = "get_signed_url"
                THEN [calls EXCEPT ![c].client = _storage_client,
                                   ![c].returned = @ \o _storage_client,
                                   ![c].pc = "email"]
                ELSE [calls EXCEPT ![c].pc = "transfer"]
    /\ UNCHANGED <<_storage_client, constructed, outside>>

\* the blob operation of download_file, upload_file, read_file, delete_blob,
\* list_blobs
transfer(c) ==
    /\ calls[c].pc = "transfer"
    /\ Return(c, Done("ok"))
    /\ UNCHANGED <<_storage_client, constructed, outside>>

transfer_raises(c) ==
    /\ calls[c].pc = "transfer"
    /\ calls' = [calls EXCEPT ![c].failure = "transfer",
                              ![c].result = <<GCSOperationError>>, ![c].pc = "done"]
    /\ UNCHANGED <<_storage_client, constructed, outside>>

\* service_account_email = _get_service_account_email(), and the choice of the
\* signer: the IAM signer when there is an identity and no key file
resolve_email(c) ==
    LET email == _get_service_account_email(env)
    IN  /\ calls[c].pc = "email"
        /\ calls' = [calls EXCEPT
                        ![c].email = email,
                        ![c].pc = IF email # None /\ ~env.key_file THEN "iam" ELSE "local"]
        /\ UNCHANGED <<_storage_client, constructed, outside>>

\* blob.generate_signed_url with the IAM signer
iam_sign(c) ==
    /\ calls[c].pc = "iam"
    /\ env.credentials_email # AuthRaises
    /\ calls' = [calls EXCEPT ![c].attempted = @ \cup {"remote"},
                              ![c].result = <<SignedUrl("remote", calls[c].email)>>,
                              ![c].pc = "done"]
    /\ UNCHANGED <<_storage_client, constructed, outside>>

\* the IAM signer raises: "Falling back to default"
iam_sign_raises(c) ==
    /\ calls[c].pc = "iam"
    /\ calls' = [calls EXCEPT ![c].attempted = @ \cup {"remote"}, ![c].pc = "local"]
    /\ UNCHANGED <<_storage_client, constructed, outside>>

\* blob.generate_signed_url with the client's own credentials
local_sign(c) ==
    /\ calls[c].pc = "local"
    /\ calls' = [calls EXCEPT ![c].attempted = @ \cup {"local"},
                              ![c].result = <<SignedUrl("local", calls[c].email)>>,
                              ![c].pc = "done"]
    /\ UNCHANGED <<_storage_client, constructed, outside>>

\* the credentials cannot sign
local_sign_raises(c) ==
    /\ calls[c].pc = "local"
    /\ calls' = [calls EXCEPT ![c].attempted = @ \cup {"local"},
                              ![c].failure = "sign",
                              ![c].result = <<GCSOperationError>>, ![c].pc = "done"]
    /\ UNCHANGED <<_storage_client, constructed, outside>>

(***************************************************************************)
(* GatewaySpec: the calls of the gateway in a process that has just        *)
(* started, in every environment.                                          *)
(***************************************************************************)
GatewayInit ==
    /\ briefs = << >>
    /\ plans = << >>
    /\ history = << >>
    /\ resp = 0
    /\ reqs = << >>
    /\ local = << >>
    /\ blobs = << >>
    /\ _storage_client = << >>
    /\ constructed = 0
    /\ calls = << >>
    /\ env \in Environments

GatewayNext ==
    \/ \E op \in Operations : gcs_call(op)
    \/ \E c \in DOMAIN calls : _get_storage_client(c)
    \/ \E c \in DOMAIN calls : storage_Client(c)
    \/ \E c \in DOMAIN calls : storage_Client_raises(c)
    \/ \E c \in DOMAIN calls : without_client(c)
    \/ \E c \in DOMAIN calls : _get_bucket(c)
    \/ \E c \in DOMAIN calls : transfer(c)
    \/ \E c \in DOMAIN calls : transfer_raises(c)
    \/ \E c \in DOMAIN calls : resolve_email(c)
    \/ \E c \in DOMAIN calls : iam_sign(c)
    \/ \E c \in DOMAIN calls : iam_sign_raises(c)
    \/ \E c \in DOMAIN calls : local_sign(c)
    \/ \E c \in DOMAIN calls : local_sign_raises(c)

GatewaySpec == GatewayInit /\ [][GatewayNext]_vars

(***************************************************************************)
(* extract_columns and update_columns step by step.  The handlers are      *)
(* plain functions, which the server runs on worker threads: two requests  *)
(* run at the same time, and nothing in the code makes one wait for the    *)
(* other.  A request in flight is a record of its arguments, its place in  *)
(* the handler (pc) and its local variables; `local` is the directory tmp/ *)
(* and `blobs` the bucket, both path |-> file.                             *)
(***************************************************************************)
\* requests that run at the same time
MaxRequests == 2

\* a file: the worksheet in it, the request that wrote it last (0: the agency's
\* upload), and whether the writer got to the end of it
File(cells, writer, whole) == [cells |-> cells, writer |-> writer, whole |-> whole]
Exists(fs, path) == path \in DOMAIN fs
WriteFile(fs, path, f) == [k \in (DOMAIN fs \cup {path}) |-> IF k = path THEN f ELSE fs[k]]
\* if os.path.exists(path): os.remove(path)
RemoveFile(fs, path) == [k \in (DOMAIN fs \ {path}) |-> fs[k]]

CellName(row, column) == Str(row) \o ":" \o Str(column)
FullSheet(m, n) == [k \in ((1..m) \X (1..n)) |-> CellName(k[1], k[2])]

\* header_row=4 of the call in update_columns
UpdateHeaderRow == 4

local_raw_path(req) ==
    IF req.kind = "extract"
    THEN "tmp/" \o Str(req.brief_id) \o "_" \o Str(req.plan_id) \o "_raw.xlsx"
    ELSE "tmp/update_raw_" \o Str(req.plan_id) \o ".xlsx"
\* local_flat_path of extract_columns, local_validated of update_columns
local_output_path(req) ==
    IF req.kind = "extract"
    THEN "tmp/" \o Str(req.brief_id) \o "_" \o Str(req.plan_id) \o "_flat.xlsx"
    ELSE "tmp/update_validated_" \o Str(req.plan_id) \o ".xlsx"
\* flat_blob_name of extract_columns, validated_blob of update_columns
output_blob(req) ==
    IF req.kind = "extract" THEN FlatPath(req.brief_id, req.plan_id)
    ELSE ValidatedPath(req.brief_id, req.plan_id)

\* {int(k): v for k, v in d.items()}
IntKeys(d) == [i \in 1..Len(d) |-> <<IntOf(d[i][1]), d[i][2]>>]

\* a request as it enters the handler's body: the plan was found
NewRequest(kind, current_user, brief_id, plan_id, human_mappings) ==
    [kind |-> kind, user_id |-> current_user.id,
     brief_id |-> brief_id, plan_id |-> plan_id, human_mappings |-> human_mappings,
     pc |-> "download",
     raw_blob_name |-> RawPath(brief_id, plan_id),
     agent_resp |-> << >>,
     header_row |-> IF kind = "update" THEN UpdateHeaderRow ELSE 0,
     mappings |-> IF kind = "update" THEN final_mappings(plan_id, human_mappings) ELSE << >>,
     ws |-> << >>, uploaded |-> << >>, code |-> 0]

begin(kind, current_user, brief_id, plan_id, human_mappings) ==
    /\ Len(reqs) < MaxRequests
    /\ OwnedPlan(plan_id, brief_id, current_user.agency_id) # 0
    /\ reqs' = Append(reqs, NewRequest(kind, current_user, brief_id, plan_id, human_mappings))
    /\ UNCHANGED <<gateway, briefs, plans, history, resp, local, blobs>>

\* the request raises: extract_columns answers at once and leaves its files in
\* tmp/, update_columns answers 500 after its finally block
Raise(r, code) ==
    /\ reqs' = [reqs EXCEPT ![r].code = IF reqs[r].kind = "update" THEN 500 ELSE code,
                            ![r].pc = IF reqs[r].kind = "update" THEN "cleanup" ELSE "done"]
    /\ resp' = IF reqs[r].kind = "update" THEN 500 ELSE code

Goto(r, pc) == reqs' = [reqs EXCEPT ![r].pc = pc]

\* gcs.download_file opens the local file and writes the blob into it
download_begin(r) ==
    /\ reqs[r].pc = "download"
    /\ Exists(blobs, reqs[r].raw_blob_name)
    /\ local' = WriteFile(local, local_raw_path(reqs[r]), File(<< >>, r, FALSE))
    /\ Goto(r, "downloading")
    /\ UNCHANGED <<gateway, briefs, plans, history, resp, blobs>>

\* the last byte is written; a file removed in the meantime stays removed
download_end(r) ==
    LET raw == blobs[reqs[r].raw_blob_name]
    IN  /\ reqs[r].pc = "downloading"
        /\ local' = IF Exists(local, local_raw_path(reqs[r]))
                    THEN WriteFile(local, local_raw_path(reqs[r]), File(raw.cells, r, TRUE))
                    ELSE local
        /\ Goto(r, IF reqs[r].kind = "extract" THEN "map" ELSE "load")
        /\ UNCHANGED <<gateway, briefs, plans, history, resp, blobs>>

\* the download raises, as it does when the blob is not there and may when it
\* is: extract_columns goes on to the older blob name, update_columns raises
download_fails(r) ==
    /\ reqs[r].pc = "download"
    /\ IF reqs[r].kind = "extract"
       THEN /\ Goto(r, "download_old")
            /\ UNCHANGED resp
       ELSE Raise(r, 500)
    /\ UNCHANGED <<gateway, briefs, plans, history, local, blobs>>

\* gcs.download_file(raw_blob_name_old, local_raw_path), and
\* raw_blob_name = raw_blob_name_old
download_old_begin(r) ==
    LET old == OldRawPath(reqs[r].brief_id, reqs[r].plan_id)
    IN  /\ reqs[r].pc = "download_old"
        /\ Exists(blobs, old)
        /\ local' = WriteFile(local, local_raw_path(reqs[r]), File(<< >>, r, FALSE))
        /\ reqs' = [reqs EXCEPT ![r].raw_blob_name = old, ![r].pc = "downloading"]
        /\ UNCHANGED <<gateway, briefs, plans, history, resp, blobs>>

\* a second download that would answer its failure with a server error
download_old_fails_with_500(r) ==
    /\ reqs[r].pc = "download_old"
    /\ Raise(r, 500)
    /\ UNCHANGED <<gateway, briefs, plans, history, local, blobs>>

\* the second download raises as well: HTTPException(status_code=404)
download_old_fails(r) ==
    /\ reqs[r].pc = "download_old"
    /\ Raise(r, 404)
    /\ UNCHANGED <<gateway, briefs, plans, history, local, blobs>>

\* senior_response_raw = _mock_senior_api_extract(...)
map_columns(r) ==
    /\ reqs[r].pc = "map"
    /\ reqs' = [reqs EXCEPT ![r].agent_resp = _mock_senior_api_extract, ![r].pc = "transform"]
    /\ UNCHANGED <<gateway, briefs, plans, history, resp, local, blobs>>

\* transformed_resp = _transform_senior_api_response(senior_response_raw)
transform_response(r) ==
    LET t == _transform_senior_api_response(reqs[r].agent_resp)
    IN  /\ reqs[r].pc = "transform"
        /\ reqs' = [reqs EXCEPT ![r].header_row = t.header_row,
                                ![r].mappings = t.ai_mappings,
                                ![r].pc = "load"]
        /\ UNCHANGED <<gateway, briefs, plans, history, resp, local, blobs>>

\* the mappings argument of the call of _process_excel_extract
mappings_argument(req) ==
    IF req.kind = "update" THEN IntKeys(req.mappings) ELSE req.mappings

\* wb = openpyxl.load_workbook(local_input_path), which raises on a file that is
\* not there or not whole; update_columns converts the keys before the call
load_workbook(r) ==
    LET path == local_raw_path(reqs[r])
        readable == Exists(local, path) /\ local[path].whole
        int_keys == reqs[r].kind = "update" => \A k \in DictKeys(reqs[r].mappings) : IsIntStr(k)
    IN  /\ reqs[r].pc = "load"
        /\ IF readable /\ int_keys
           THEN /\ reqs' = [reqs EXCEPT ![r].ws = local[path].cells, ![r].pc = "crop"]
                /\ UNCHANGED resp
           ELSE Raise(r, 500)
        /\ UNCHANGED <<gateway, briefs, plans, history, local, blobs>>

crop_rows(r) ==
    /\ reqs[r].pc = "crop"
    /\ IF CropRaises(reqs[r].ws, reqs[r].header_row)
       THEN Raise(r, 500)
       ELSE /\ reqs' = [reqs EXCEPT ![r].ws = CropRows(@, reqs[r].header_row),
                                    ![r].pc = "rename"]
            /\ UNCHANGED resp
    /\ UNCHANGED <<gateway, briefs, plans, history, local, blobs>>

rename_headers(r) ==
    /\ reqs[r].pc = "rename"
    /\ reqs' = [reqs EXCEPT ![r].ws = RenameHeaders(@, mappings_argument(reqs[r])),
                            ![r].pc = "save"]
    /\ UNCHANGED <<gateway, briefs, plans, history, resp, local, blobs>>

\* wb.save(local_output_path) opens the file, which empties it, ...
save_begin(r) ==
    /\ reqs[r].pc = "save"
    /\ local' = WriteFile(local, local_output_path(reqs[r]), File(<< >>, r, FALSE))
    /\ Goto(r, "saving")
    /\ UNCHANGED <<gateway, briefs, plans, history, resp, blobs>>

\* ... and writes the workbook into it
save_end(r) ==
    /\ reqs[r].pc = "saving"
    /\ local' = IF Exists(local, local_output_path(reqs[r]))
                THEN WriteFile(local, local_output_path(reqs[r]), File(reqs[r].ws, r, TRUE))
                ELSE local
    /\ Goto(r, "upload")
    /\ UNCHANGED <<gateway, briefs, plans, history, resp, blobs>>

\* gcs.upload_file sends what the local file holds at this moment; it raises when
\* the file is not there
upload_file(r) ==
    LET path == local_output_path(reqs[r])
    IN  /\ reqs[r].pc = "upload"
        /\ IF Exists(local, path)
           THEN /\ blobs' = WriteFile(blobs, output_blob(reqs[r]), local[path])
                /\ reqs' = [reqs EXCEPT ![r].uploaded = <<local[path]>>, ![r].pc = "commit"]
                /\ UNCHANGED resp
           ELSE /\ Raise(r, 500)
                /\ UNCHANGED blobs
        /\ UNCHANGED <<gateway, briefs, plans, history, local>>

\* the upload raises in the storage service
upload_fails(r) ==
    /\ reqs[r].pc = "upload"
    /\ Raise(r, 500)
    /\ UNCHANGED <<gateway, briefs, plans, history, local, blobs>>

\* the assignments to the plan and db.commit()
commit(r) ==
    LET req == reqs[r]
        p == req.plan_id
    IN  /\ req.pc = "commit"
        /\ IF req.kind = "extract"
           THEN /\ plans' = [plans EXCEPT
                               ![p].flat_file_path = output_blob(req),
                               ![p].ai_mappings = Some(StrKeys(req.mappings))]
                /\ UNCHANGED history
           ELSE /\ plans' = [plans EXCEPT
                               ![p].human_mappings = Some(req.human_mappings),
                               ![p].validated_column_file_path = output_blob(req),
                               ![p].plan_file_url = output_blob(req),
                               ![p].plan_file_name = "plan_final.xlsx"]
                /\ history' = AddHistory(history, p, "COLUMNS_UPDATED", req.user_id,
                                         "User confirmed/updated column mappings.", None)
        /\ Goto(r, "sign")
        /\ UNCHANGED <<gateway, briefs, resp, local, blobs>>

\* gcs.get_signed_url returns: the request is going to answer 200
get_signed_url(r) ==
    /\ reqs[r].pc = "sign"
    /\ reqs' = [reqs EXCEPT ![r].code = 200, ![r].pc = "cleanup"]
    /\ resp' = 200
    /\ UNCHANGED <<gateway, briefs, plans, history, local, blobs>>

\* gcs.get_signed_url raises GCSOperationError
get_signed_url_fails(r) ==
    /\ reqs[r].pc = "sign"
    /\ Raise(r, 502)
    /\ UNCHANGED <<gateway, briefs, plans, history, local, blobs>>

\* the removal of the two local files: the last lines of extract_columns, the
\* finally block of update_columns
cleanup(r) ==
    /\ reqs[r].pc = "cleanup"
    /\ local' = RemoveFile(RemoveFile(local, local_raw_path(reqs[r])),
                           local_output_path(reqs[r]))
    /\ Goto(r, "done")
    /\ UNCHANGED <<gateway, briefs, plans, history, resp, blobs>>

(***************************************************************************)
(* PipelineSpec: two requests of one agency on its plan, from the state in *)
(* which the brief exists, the upload URL was handed out and the agency    *)
(* has put its spreadsheet at it.                                          *)
(***************************************************************************)
UploadedSheet == FullSheet(MockDataStartRow, MaxSheetCols)

\* the bucket when the requests begin: the agency has put its sheet at the
\* URL it was given, or the sheet is there under the older name, or it is not there
RawBlobs ==
    { WriteFile(<< >>, path, File(UploadedSheet, 0, TRUE)) :
        path \in {RawPath(1, 1), OldRawPath(1, 1)} } \cup { << >> }

PipelineInit ==
    LET ds == CHOOSE u \in DsGroupUsers : TRUE
    IN  /\ briefs = << [client_id |-> ds.client_id, status |-> "ACTIVE",
                        created_by |-> ds.id, updated_by |-> ds.id,
                        updated_at |-> None] >>
        /\ plans = << [NewPlan(1, ID_AG_ALPHA, ds.id) EXCEPT !.raw_file_path = RawPath(1, 1)] >>
        /\ history = << << HistoryEntry(1, "NEW_BRIEF_CREATED", ds.id,
                                        <<"assigned", agency_name(ID_AG_ALPHA)>>, None) >> >>
        /\ resp = 200
        /\ reqs = << >>
        /\ local = << >>
        /\ blobs \in RawBlobs
        /\ _storage_client = << >>
        /\ constructed = 0
        /\ env = ManagedEnvironment
        /\ calls = << >>

PipelineNext ==
    \/ \E user \in AgencyUsers, b \in BriefIdArgs, p \in PlanIdArgs :
            begin("extract", user, b, p, << >>)
    \/ \E user \in AgencyUsers, b \in BriefIdArgs, p \in PlanIdArgs, hm \in HumanPayloads :
            begin("update", user, b, p, hm)
    \/ \E r \in DOMAIN reqs : download_begin(r)
    \/ \E r \in DOMAIN reqs : download_end(r)
    \/ \E r \in DOMAIN reqs : download_fails(r)
    \/ \E r \in DOMAIN reqs : download_old_begin(r)
    \/ \E r \in DOMAIN reqs : download_old_fails(r)
    \/ \E r \in DOMAIN reqs : map_columns(r)
    \/ \E r \in DOMAIN reqs : transform_response(r)
    \/ \E r \in DOMAIN reqs : load_workbook(r)
    \/ \E r \in DOMAIN reqs : crop_rows(r)
    \/ \E r \in DOMAIN reqs : rename_headers(r)
    \/ \E r \in DOMAIN reqs : save_begin(r)
    \/ \E r \in DOMAIN reqs : save_end(r)
    \/ \E r \in DOMAIN reqs : upload_file(r)
    \/ \E r \in DOMAIN reqs : upload_fails(r)
    \/ \E r \in DOMAIN reqs : commit(r)
    \/ \E r \in DOMAIN reqs : get_signed_url(r)
    \/ \E r \in DOMAIN reqs : get_signed_url_fails(r)
    \/ \E r \in DOMAIN reqs : cleanup(r)

PipelineSpec == PipelineInit /\ [][PipelineNext]_vars

(***************************************************************************)
(* TransformSpec: one request of extract_columns from the point where the  *)
(* raw file is in tmp/ and the mapping service has answered, over the      *)
(* worksheets and the answers below, up to the saved output file.          *)
(***************************************************************************)
\* the worksheets: every full sheet of up to MaxRows rows, and each with one
\* cell that was never written
Sheets ==
    {FullSheet(m, MaxSheetCols) : m \in 0..MaxRows}
    \cup UNION { {RemoveFile(FullSheet(m, MaxSheetCols), k) :
                    k \in DOMAIN FullSheet(m, MaxSheetCols)} : m \in 1..MaxRows }

MappingLists ==
    { << >>, << <<0, "programme">> >>, << <<1, "day">>, <<1, "time">> >> }

\* the answers of the mapping service, with and without "data_start_row"
UnmappedLists == { << >>, <<1>> }

\* an answer of the mapping service that reports a failure: it has no "mappings"
FailureResponses == { [success |-> FALSE, error |-> "upstream timeout"] }

AgentResponses ==
    [mappings : MappingLists, unmapped_source_columns : UnmappedLists,
     data_start_row : 1..MaxStartRow]
    \cup [mappings : MappingLists, unmapped_source_columns : UnmappedLists]
    \cup FailureResponses

TransformInit ==
    LET ds == CHOOSE u \in DsGroupUsers : TRUE
        alpha == CHOOSE u \in AgencyUsers : u.agency_id = ID_AG_ALPHA
    IN  /\ briefs = << [client_id |-> ds.client_id, status |-> "ACTIVE",
                        created_by |-> ds.id, updated_by |-> ds.id,
                        updated_at |-> None] >>
        /\ plans = << [NewPlan(1, ID_AG_ALPHA, ds.id) EXCEPT !.raw_file_path = RawPath(1, 1)] >>
        /\ history = << << HistoryEntry(1, "NEW_BRIEF_CREATED", ds.id,
                                        <<"assigned", agency_name(ID_AG_ALPHA)>>, None) >> >>
        /\ resp = 200
        /\ _storage_client = << >>
        /\ constructed = 0
        /\ env = ManagedEnvironment
        /\ calls = << >>
        /\ \E sheet \in Sheets, agent_resp \in AgentResponses :
             LET req == [NewRequest("extract", alpha, 1, 1, << >>) EXCEPT
                            !.agent_resp = agent_resp, !.pc = "transform"]
             IN  /\ reqs = <<req>>
                 /\ blobs = WriteFile(<< >>, RawPath(1, 1), File(sheet, 0, TRUE))
                 /\ local = WriteFile(<< >>, local_raw_path(req), File(sheet, 1, TRUE))

TransformNext ==
    \/ \E r \in DOMAIN reqs : transform_response(r)
    \/ \E r \in DOMAIN reqs : load_workbook(r)
    \/ \E r \in DOMAIN reqs : crop_rows(r)
    \/ \E r \in DOMAIN reqs : rename_headers(r)
    \/ \E r \in DOMAIN reqs : save_begin(r)
    \/ \E r \in DOMAIN reqs : save_end(r)

TransformSpec == TransformInit /\ [][TransformNext]_vars

(***************************************************************************)
(* The requests.                                                           *)
(***************************************************************************)
Next ==
    \/ \E user \in DsGroupUsers, targets \in TargetLists : create_brief(user, targets)
    \/ \E user \in AgencyUsers, b \in BriefIdArgs, p \in PlanIdArgs :
            get_upload_url(user, b, p)
    \/ \E user \in AgencyUsers, b \in BriefIdArgs, p \in PlanIdArgs :
            extract_columns(user, b, p)
    \/ \E user \in AgencyUsers, b \in BriefIdArgs, p \in PlanIdArgs, hm \in HumanPayloads :
            update_columns(user, b, p, hm)
    \/ \E user \in AgencyUsers, b \in BriefIdArgs, comment \in Comments :
            submit_plan(user, b, comment)
    \/ \E user \in CurrentUsers, b \in BriefIdArgs, p \in PlanIdArgs,
          review \in ReviewSubmissionRequest :
            review_plan(user, b, p, review)

Spec == Init /\ [][Next]_vars

(***************************************************************************)
(* Properties.                                                             *)
(***************************************************************************)
FinalStatuses == {"APPROVED", "REJECTED"}

\* the reviews that carry a status, and those that carry a comment only
StatusReviews == {r \in ReviewSubmissionRequest : r.status # None}
CommentReviews == {r \in ReviewSubmissionRequest : r.status = None}

\* C1: in every reachable state, a brief (with at least one plan) is APPROVED
\* exactly when all of its plans are APPROVED, and REJECTED exactly when at
\* least one plan is REJECTED and not all are APPROVED.
C1_BriefStatusMatchesPlans ==
    \A b \in BriefIds :
        LET ps == PlansOfBrief(b)
            all_approved == \A p \in ps : plans[p].status = "APPROVED"
            any_rejected == \E p \in ps : plans[p].status = "REJECTED"
        IN  ps # {} =>
              /\ briefs[b].status = "APPROVED" <=> all_approved
              /\ briefs[b].status = "REJECTED" <=> (any_rejected /\ ~all_approved)

\* C2: APPROVED and REJECTED are terminal: no step changes the status of a plan
\* that is APPROVED or REJECTED.
C2_FinalStatusesAreTerminal ==
    [][\A p \in PlanIds :
          plans[p].status \in FinalStatuses => plans'[p].status = plans[p].status]_vars

\* C3: every change of a plan's status is DRAFT -> PENDING_REVIEW,
\* PENDING_REVIEW -> APPROVED or PENDING_REVIEW -> REJECTED.
C3_StatusChangesFollowLifecycle ==
    [][\A p \in PlanIds :
          plans'[p].status # plans[p].status =>
              <<plans[p].status, plans'[p].status>> \in
                  { <<"DRAFT", "PENDING_REVIEW">>,
                    <<"PENDING_REVIEW", "APPROVED">>,
                    <<"PENDING_REVIEW", "REJECTED">> }]_vars

\* C4: a successful request-upload leaves the plan with its raw path set and with
\* flat path, validated path, AI mappings and human mappings all null.
C4_UploadResetsDownstream ==
    [][\A user \in AgencyUsers, b \in BriefIdArgs, p \in PlanIdArgs :
          get_upload_url(user, b, p) =>
              /\ plans'[p].raw_file_path # NoPath
              /\ plans'[p].flat_file_path = NoPath
              /\ plans'[p].validated_column_file_path = NoPath
              /\ plans'[p].ai_mappings = NoDict
              /\ plans'[p].human_mappings = NoDict]_vars

\* C5: a review that carries a status and comes from an agency user is answered
\* 403 for every existing plan, the user's own or not, and no step of the
\* system is such a review: the store stays as it is.
C5_AgencyStatusReviewForbidden ==
    /\ [](\A user \in AgencyUsers, b \in BriefIds, r \in StatusReviews :
              \A p \in PlansOfBrief(b) : review_plan_code(user, b, p, r) = 403)
    /\ [][\A user \in AgencyUsers, b \in BriefIdArgs, p \in PlanIdArgs, r \in StatusReviews :
              ~review_plan(user, b, p, r)]_vars

\* an agency has submitted its own plan, which an agency user may comment on, and
\* a second agency has a plan in the same brief
C5_Witness ==
    \E b \in BriefIds, user \in AgencyUsers : \E p, q \in PlansOfBrief(b) :
        /\ plans[p].agency_id = user.agency_id
        /\ plans[q].agency_id # user.agency_id
        /\ plans[p].status = "PENDING_REVIEW"
        /\ review_plan_code(user, b, p, [status |-> None, comment |-> "c"]) = 200
        /\ review_plan_code(user, b, p, [status |-> "APPROVED", comment |-> None]) = 403
        /\ review_plan_code(user, b, q, [status |-> "REJECTED", comment |-> None]) = 403

\* the step appends exactly one entry to the history of plan p and leaves the
\* other histories as they are
AppendsOne(p) ==
    /\ Len(history'[p]) = Len(history[p]) + 1
    /\ SubSeq(history'[p], 1, Len(history[p])) = history[p]
    /\ \A q \in PlanIds \ {p} : history'[q] = history[q]

\* C6: a comment-only review, by the client or by the owning agency, leaves the
\* status of every plan and the briefs as they are (the aggregation block does
\* not run) and appends exactly one history entry, of action COMMENT_ADDED.
C6_CommentOnlyReview ==
    [][\A user \in CurrentUsers, b \in BriefIdArgs, p \in PlanIdArgs, r \in CommentReviews :
          review_plan(user, b, p, r) =>
              /\ \A q \in PlanIds : plans'[q].status = plans[q].status
              /\ briefs' = briefs
              /\ AppendsOne(p)
              /\ history'[p][Len(history'[p])].action = "COMMENT_ADDED"]_vars

\* the owning agency commented on its submitted plan, then the client did
C6_Witness ==
    \E p \in PlanIds :
        /\ Len(history[p]) = 3
        /\ history[p][2].action = "COMMENT_ADDED"
        /\ history[p][2].user_id = "u_alpha"
        /\ history[p][3].action = "COMMENT_ADDED"
        /\ history[p][3].user_id = "u_ds"
        /\ plans[p].agency_id = ID_AG_ALPHA

C8_ReviewRecomputesBriefStatus ==
    [][\A user \in DsGroupUsers, b \in BriefIdArgs, p \in PlanIdArgs, r \in StatusReviews :
          review_plan(user, b, p, r) =>
              LET ps == {q \in 1..Len(plans') : plans'[q].brief_id = b}
              IN  /\ plans'[p].status = r.status
                  /\ briefs'[b].status =
                        IF \A q \in ps : plans'[q].status = "APPROVED" THEN "APPROVED"
                        ELSE IF \E q \in ps : plans'[q].status = "REJECTED" THEN "REJECTED"
                        ELSE briefs[b].status
                  /\ \A c \in BriefIds \ {b} : briefs'[c].status = briefs[c].status]_vars

\* a brief with two plans stayed ACTIVE after the review that approved the first
\* and became APPROVED with the review that approved the second
C8_Witness ==
    \E b \in BriefIds : \E p, q \in PlansOfBrief(b) :
        /\ p # q
        /\ briefs[b].status = "APPROVED"
        /\ plans[p].status = "APPROVED" /\ history[p][Len(history[p])].action = "STATUS_CHANGE"
        /\ plans[q].status = "APPROVED" /\ history[q][Len(history[q])].action = "STATUS_CHANGE"

\* C9: every successful request-upload, extract-columns, update-columns, submit
\* and review appends exactly one entry to the history of its plan.
C9_EveryOperationAppendsOne ==
    [][/\ \A user \in AgencyUsers, b \in BriefIdArgs, p \in PlanIdArgs :
            /\ get_upload_url(user, b, p) => AppendsOne(p)
            /\ extract_columns(user, b, p) => AppendsOne(p)
            /\ \A hm \in HumanPayloads : update_columns(user, b, p, hm) => AppendsOne(p)
       /\ \A user \in AgencyUsers, b \in BriefIdArgs, p \in PlanIds, comment \in Comments :
            submit_plan_at(user, b, comment, p) => AppendsOne(p)
       /\ \A user \in CurrentUsers, b \in BriefIdArgs, p \in PlanIdArgs,
             r \in ReviewSubmissionRequest :
            review_plan(user, b, p, r) => AppendsOne(p)]_vars

\* C10: the history of a plan is append-only: every step leaves the entries a
\* plan's history had in place and in order, new entries coming after them.
C10_HistoryAppendOnly ==
    [][\A p \in PlanIds :
          /\ Len(history'[p]) >= Len(history[p])
          /\ SubSeq(history'[p], 1, Len(history[p])) = history[p]]_vars

\* a plan's history grew twice after the plan was created
C10_Witness ==
    \E p \in PlanIds :
        /\ Len(history[p]) = 3
        /\ history[p][1].action = "NEW_BRIEF_CREATED"
        /\ history[p][2].action = "PLAN_SUBMITTED"
        /\ history[p][3].action = "STATUS_CHANGE"

\* the target fields the mapping service mapped
MappedTargets == {db_mappings[i][2] : i \in 1..Len(db_mappings)}

\* the mandatory fields of the schema that no mapped column targets
MissingMandatory(yaml) ==
    SelectSeq(_get_schema_columns(yaml).mandatory, LAMBDA c : c \notin MappedTargets)

\* C11: whenever the schema has a mandatory field that the mapped targets do not
\* cover, an extract-columns request of the owning agency whose external calls
\* all succeed is answered with a 400 instead of reaching its commit.
C11_MissingMandatoryRejected ==
    \A user \in AgencyUsers, b \in BriefIdArgs, p \in PlanIdArgs, yaml \in SchemaYamls :
        (OwnedPlan(p, b, user.agency_id) # 0 /\ MissingMandatory(yaml) # << >>) =>
            extract_columns_code(user, b, p, "none") = 400

\* C12: an extract-columns or update-columns request that is answered with an
\* error, whichever of its steps failed (the signed URL issued last included),
\* leaves the plans and their histories exactly as they were.
C12_ErrorLeavesPlanUnchanged ==
    [][\A user \in AgencyUsers, b \in BriefIdArgs, p \in PlanIdArgs :
          ((extract_columns(user, b, p) \/ \E hm \in HumanPayloads : update_columns(user, b, p, hm))
             /\ resp' # 200)
          => (plans' = plans /\ history' = history)]_vars

\* C14: in every reachable state no brief has two plans for the same agency:
\* a brief is created with exactly one plan per targeted existing agency,
\* whatever ids its target list repeats.
C14_OnePlanPerAgency ==
    \A b \in BriefIds : \A p, q \in PlansOfBrief(b) :
        p # q => plans[p].agency_id # plans[q].agency_id

\* what the reads answer an agency user with: the brief list, and the details of
\* the briefs and plans the user is let into
SeenBy(user) ==
    [list |-> list_briefs(user),
     briefs |-> [b \in {c \in BriefIdArgs : get_brief_detail_code(user, c) = 200} |->
                    get_brief_detail(user, b)],
     plans |-> [bp \in {x \in BriefIdArgs \X PlanIdArgs :
                           get_plan_detail_code(user, x[1], x[2]) = 200} |->
                    get_plan_detail(bp[2])]]

\* the same without the status and the updater of the briefs
WithoutBriefStatus(view) == [view EXCEPT !.status = "-", !.updater = "-"]
SeenOfPlansBy(user) ==
    LET seen == SeenBy(user)
    IN  [seen EXCEPT !.list = {WithoutBriefStatus(v) : v \in @},
                     !.briefs = [b \in DOMAIN @ |-> WithoutBriefStatus(@[b])]]

\* the plans of the user's agency, each with its history
OwnRows(user) ==
    [p \in {q \in PlanIds : plans[q].agency_id = user.agency_id} |-> <<plans[p], history[p]>>]

\* an agency is shown only briefs that have a plan of its own and, in them, only
\* its own plans and target entry; the detail of another agency's plan is a 403
OnlyOwnShown(user) ==
    /\ \A v \in list_briefs(user) :
          /\ SlotsOf(v.id, user.agency_id) # {}
          /\ \A pl \in v.agencyPlans : pl.agency_id = user.agency_id
          /\ \A t \in v.targetAgencies : t.id = user.agency_id
    /\ \A b \in BriefIds :
          IF SlotsOf(b, user.agency_id) = {}
          THEN get_brief_detail_code(user, b) = 403
          ELSE /\ get_brief_detail_code(user, b) = 200
               /\ \A pl \in get_brief_detail(user, b).agencyPlans : pl.agency_id = user.agency_id
               /\ \A t \in get_brief_detail(user, b).targetAgencies : t.id = user.agency_id
    /\ \A b \in BriefIds : \A p \in PlansOfBrief(b) :
          plans[p].agency_id # user.agency_id => get_plan_detail_code(user, b, p) = 403

C16_SubmitByOwningAgency ==
    /\ [](/\ \A t \in Tokens :
                get_current_user(t).user.role # "AGENCY" => verify_agency(t).code = 403
          /\ \A user \in AgencyUsers : user.role = "AGENCY"
          /\ \A user \in AgencyUsers, b \in BriefIdArgs :
                SlotsOf(b, user.agency_id) = {} => submit_plan_code(user, b) = 404)
    /\ [][\A user \in AgencyUsers, b \in BriefIdArgs, comment \in Comments :
            /\ SlotsOf(b, user.agency_id) = {} => ~submit_plan(user, b, comment)
            /\ \A p \in PlanIds :
                  submit_plan_at(user, b, comment, p) =>
                      /\ plans[p].agency_id = user.agency_id /\ plans[p].brief_id = b
                      /\ plans'[p].status = "PENDING_REVIEW"
                      /\ plans'[p].submitted_at = get_utc_now
                      /\ briefs' = briefs
                      /\ \A q \in PlanIds \ {p} : plans'[q] = plans[q]]_vars

\* an agency submitted its plan under a brief in which another agency's plan is
\* still a draft, never submitted
C16_Witness ==
    \E b \in BriefIds : \E p, q \in PlansOfBrief(b) :
        /\ plans[p].status = "PENDING_REVIEW" /\ plans[p].submitted_at # None
        /\ history[p][Len(history[p])].action = "PLAN_SUBMITTED"
        /\ plans[q].agency_id # plans[p].agency_id
        /\ plans[q].status = "DRAFT" /\ plans[q].submitted_at = None

\* a client user of another organization than the one that owns the briefs: the
\* user record review_plan would be handed for such a user
OtherClientUser ==
    [id |-> "u_other", role |-> "DS_GROUP", client_id |-> "other_client", agency_id |-> None]

\* C17: a review that carries a status, from a client user whose organization
\* is not the one that owns the plan's brief, is answered 403.
C17_ReviewOnlyByOwningClient ==
    \A user \in DsGroupUsers \cup {OtherClientUser}, b \in BriefIds, r \in StatusReviews :
        \A p \in PlansOfBrief(b) :
            user.client_id # briefs[b].client_id => review_plan_code(user, b, p, r) = 403

\* the plan p is under brief b and belongs to the agency of user
IsOwnPlan(user, b, p) ==
    p \in PlanIds /\ plans[p].brief_id = b /\ plans[p].agency_id = user.agency_id

\* C18: request-upload, extract-columns and update-columns are answered 404,
\* whatever their external calls do, unless the plan is under the given brief
\* and belongs to the caller's agency; every step of one of them is on such a
\* plan and leaves the other plans, the other histories and the briefs as
\* they are.
C18_OnlyOwnerChangesPlan ==
    /\ [](\A user \in AgencyUsers, b \in BriefIdArgs, p \in PlanIdArgs :
            ~IsOwnPlan(user, b, p) =>
                /\ \A f \in UploadUrlFailures : get_upload_url_code(user, b, p, f) = 404
                /\ \A f \in PipelineFailures :
                      /\ extract_columns_code(user, b, p, f) = 404
                      /\ \A hm \in HumanPayloads : update_columns_code(user, b, p, hm, f) = 404)
    /\ [][\A user \in AgencyUsers, b \in BriefIdArgs, p \in PlanIdArgs :
            (\/ get_upload_url(user, b, p)
             \/ extract_columns(user, b, p)
             \/ \E hm \in HumanPayloads : update_columns(user, b, p, hm))
            => /\ IsOwnPlan(user, b, p)
               /\ \A q \in PlanIds \ {p} : plans'[q] = plans[q] /\ history'[q] = history[q]
               /\ briefs' = briefs]_vars

\* one agency took its plan through upload, extraction and confirmation while the
\* plan of another agency under the same brief is as it was created, and the
\* second agency's requests on the first one's plan are answered 404
C18_Witness ==
    \E b \in BriefIds : \E p, q \in PlansOfBrief(b) : \E user \in AgencyUsers :
        /\ plans[p].agency_id # user.agency_id
        /\ plans[q].agency_id = user.agency_id
        /\ plans[p].raw_file_path # NoPath
        /\ plans[p].flat_file_path # NoPath
        /\ plans[p].human_mappings # NoDict
        /\ plans[q] = NewPlan(b, user.agency_id, plans[q].created_by)
        /\ Len(history[q]) = 1
        /\ get_upload_url_code(user, b, p, "none") = 404
        /\ extract_columns_code(user, b, q, "none") = 200

\* the steps of a request that come before the header row is computed
BeforeTransform == {"download", "download_old", "downloading", "map", "transform"}

\* C19: for every data_start_row >= 1 the mapping service reports, and when it
\* reports none, the header row the request goes on with is
\* max(1, data_start_row - 1): 4 for 5, 1 for 1.
C19_HeaderRowAtLeastOne ==
    \A r \in DOMAIN reqs :
        (reqs[r].kind = "extract" /\ reqs[r].pc \notin BeforeTransform) =>
            LET d == reqs[r].agent_resp
                expected == IF "data_start_row" \in DOMAIN d /\ d.data_start_row - 1 > 1
                            THEN d.data_start_row - 1 ELSE 1
            IN  reqs[r].header_row = expected

\* C20: on a sheet of m rows with header row h, 1 < h <= m, the crop leaves in
\* row i, for every i in 1..(m-h+1) and every column, the cell that was in row
\* i+h-1, and the sheet ends with m-h+1 rows; with h <= 1 the sheet is unchanged.
C20_CropMovesBlockUp ==
    [][\A r \in DOMAIN reqs :
          crop_rows(r) =>
            LET h == reqs[r].header_row
                old == reqs[r].ws
                new == reqs'[r].ws
                m == max_row(old)
            IN  /\ (1 < h /\ h <= m) =>
                      /\ reqs'[r].pc = "rename"
                      /\ \A i \in 1..(m - h + 1), c \in 1..max_column(old) :
                            CellAt(new, i, c) = CellAt(old, i + h - 1, c)
                      /\ max_row(new) = m - h + 1
                      /\ \A k \in DOMAIN new : k[1] \in 1..(m - h + 1)
                /\ h <= 1 => (reqs'[r].pc = "rename" /\ new = old)]_vars

\* a sheet of three rows was cropped at header row 3: its third row is now the
\* only row, and the second row, which the move left behind, is gone
C20_Witness ==
    \E r \in DOMAIN reqs :
        /\ reqs[r].pc = "rename"
        /\ reqs[r].header_row = MaxRows
        /\ Exists(local, local_raw_path(reqs[r]))
        /\ max_row(local[local_raw_path(reqs[r])].cells) = MaxRows
        /\ <<MaxRows - 1, 1>> \in DOMAIN local[local_raw_path(reqs[r])].cells
        /\ max_row(reqs[r].ws) = 1
        /\ CellAt(reqs[r].ws, 1, 1) = CellName(MaxRows, 1)

\* C13: two requests to extract_columns / update_columns on one plan behave as
\* if they ran one after the other: under every interleaving, a request that
\* answers 200 has uploaded, whole, the worksheet it produced itself, and a
\* flat or validated path recorded on the plan names a blob that was written
\* to its end.
C13_Serialized ==
    /\ \A r \in DOMAIN reqs :
          reqs[r].code = 200 =>
              /\ reqs[r].uploaded # << >>
              /\ reqs[r].uploaded[1].whole
              /\ reqs[r].uploaded[1].cells = reqs[r].ws
    /\ \A p \in PlanIds :
          \A path \in {plans[p].flat_file_path, plans[p].validated_column_file_path} \ {NoPath} :
              Exists(blobs, path) /\ blobs[path].whole

\* the columns a renaming may touch: those of the sheet and those of the mapping
ColumnsOf(ws, mappings) ==
    1..SetMax({max_column(ws)} \cup {mappings[i][1] + 1 : i \in 1..Len(mappings)})

Lookup(d, k) == IF k \in DictKeys(d) THEN DictGet(d, k) ELSE None

\* the mapping a request to update_columns that has just begun will apply to the
\* file, against the payload and the AI mapping the plan holds at that moment:
\* Chosen(human, ai, k) is the name the statement asks for at column index k
UpdateApplies(Chosen(_, _, _)) ==
    \A user \in AgencyUsers, b \in BriefIdArgs, p \in PlanIdArgs, hm \in HumanPayloads :
        begin("update", user, b, p, hm) =>
            LET applied == mappings_argument(reqs'[Len(reqs')])
                ai == IF plans[p].ai_mappings # NoDict THEN plans[p].ai_mappings[1] ELSE << >>
            IN  \A idx \in 0..MaxCol : Lookup(applied, idx) = Chosen(hm, ai, Str(idx))

OverrideIfSupplied(human, ai, k) ==
    IF k \in DictKeys(human) THEN DictGet(human, k) ELSE Lookup(ai, k)

OverrideIfNotEmpty(human, ai, k) ==
    IF k \in DictKeys(human) /\ DictGet(human, k) # "" THEN DictGet(human, k)
    ELSE Lookup(ai, k)

\* C22: the mapping update_columns applies to the file has, at every column
\* index, the payload's value when the payload has an entry for the index, and
\* the AI value only when it has none.
C22_OverridesTakePrecedence == [][UpdateApplies(OverrideIfSupplied)]_vars

\* C22, amended: the payload's value is used at the indexes where the payload
\* has a non-empty value; at every other index, those with an empty value in the
\* payload among them, the AI value is used.
C22_NonEmptyOverridesTakePrecedence == [][UpdateApplies(OverrideIfNotEmpty)]_vars

\* a request to update_columns that overrides the AI name of column 0 is under
\* way on a plan that holds the AI mapping
C22_Witness ==
    \E r \in DOMAIN reqs :
        /\ reqs[r].kind = "update"
        /\ reqs[r].human_mappings = << <<"0", "brand">> >>
        /\ Lookup(mappings_argument(reqs[r]), 0) = "brand"
        /\ Lookup(mappings_argument(reqs[r]), 1) = "channel_name"
        /\ plans[reqs[r].plan_id].ai_mappings # NoDict

\* C23: version_number is 1 on a plan that has just been created, a request for
\* an upload URL that succeeds adds 1 to it on its plan, and nothing else
\* changes it: it is 1 plus the number of such requests.
C23_VersionCountsUploads ==
    [][/\ \A p \in DOMAIN plans' \ DOMAIN plans : plans'[p].version_number = 1
       /\ \A p \in PlanIds :
             plans'[p].version_number =
                 IF \E user \in AgencyUsers, b \in BriefIdArgs : get_upload_url(user, b, p)
                 THEN plans[p].version_number + 1
                 ELSE plans[p].version_number]_vars

\* the client objects the uses of _get_storage_client have returned so far
ReturnedClients == UNION { {calls[c].returned[i] : i \in 1..Len(calls[c].returned)} : c \in DOMAIN calls }

\* C24: the storage client is made on first use only; a failed attempt leaves
\* nothing behind, so the next use tries again; and once an attempt has
\* succeeded there is no further construction and every use returns that one
\* client.
C24_ClientInitialisedOnce ==
    /\ [](calls = << >> => _storage_client = << >>)
    /\ [](Cardinality(ReturnedClients) <= 1)
    /\ [][/\ _storage_client' # _storage_client => \E c \in DOMAIN calls : storage_Client(c)
          /\ \A c \in DOMAIN calls :
                /\ storage_Client_raises(c) => _storage_client' = << >>
                /\ (_get_storage_client(c) /\ _storage_client = << >>) =>
                       calls'[c].pc = "init_client"
          /\ _storage_client # << >> =>
                (_storage_client' = _storage_client /\ constructed' = constructed)]_vars

\* C25: a call of the gateway that could not be carried out, the case of a
\* storage client that cannot be made included, ends in GCSOperationError; no
\* URL is returned without a client.
C25_FailuresAreGCSOperationError ==
    \A c \in DOMAIN calls :
        (calls[c].pc = "done" /\ (calls[c].failure # None \/ calls[c].client = << >>)) =>
            calls[c].result[1].kind = "GCSOperationError"

\* the identity the priority order names: the override, else the identity in
\* the credentials, else the answer of the metadata server
IdentityByPriority(e) ==
    IF e.SERVICE_ACCOUNT_EMAIL # None THEN e.SERVICE_ACCOUNT_EMAIL
    ELSE IF e.credentials_email \notin {None, "default", AuthRaises} THEN e.credentials_email
    ELSE e.metadata_email

\* C28: a URL is signed locally when a key file is configured, and otherwise by
\* the remote signer under the identity found in the priority order; a call
\* that returns a signed URL has gone down one of the two paths only.
C28_OneSigningPath ==
    \A c \in DOMAIN calls :
        (calls[c].pc = "done" /\ calls[c].result[1].kind = "url"
                              /\ calls[c].result[1].signer # "mock") =>
            IF env.key_file
            THEN calls[c].result[1].signer = "local" /\ calls[c].attempted = {"local"}
            ELSE /\ calls[c].result[1].signer = "remote"
                 /\ calls[c].attempted = {"remote"}
                 /\ calls[c].result[1].identity = IdentityByPriority(env)

\* C26: right after a brief is created, every plan created for it has one
\* history entry, of action SLOT_CREATED and with the creating user as its actor.
C26_FirstEntryIsSlotCreated ==
    [][\A user \in DsGroupUsers, targets \in TargetLists :
          create_brief(user, targets) =>
              \A p \in DOMAIN plans' \ DOMAIN plans :
                  /\ Len(history'[p]) = 1
                  /\ history'[p][1].action = "SLOT_CREATED"
                  /\ history'[p][1].user_id = user.id]_vars

\* C27: a request to extract_columns whose mapping service answered with a
\* failure, or without the mappings, ends there with an error: it does not go on
\* to apply a mapping to the file or to record one on the plan.
C27_FailedMappingStopsRequest ==
    \A r \in DOMAIN reqs :
        (reqs[r].kind = "extract" /\ reqs[r].pc \notin BeforeTransform
                                  /\ "mappings" \notin DOMAIN reqs[r].agent_resp) =>
            reqs[r].pc = "done" /\ reqs[r].code \in {500, 502} /\ reqs[r].ws = << >>

\* the step is a submit that sets plan p
SubmitOf(p) ==
    \E user \in AgencyUsers, b \in BriefIdArgs, comment \in Comments :
        submit_plan_at(user, b, comment, p)

\* the step is a review of plan p that carries a status
StatusReviewOf(p) ==
    \E user \in CurrentUsers, b \in BriefIdArgs, review \in StatusReviews :
        review_plan(user, b, p, review)

\* the status of a plan changes only in a submit or a status-carrying review of it
PlanStatusFrame ==
    [][\A p \in DOMAIN plans :
          plans'[p].status # plans[p].status => SubmitOf(p) \/ StatusReviewOf(p)]_vars

\* a plan leaves DRAFT only in a submit of it
LeavesDraftBySubmit ==
    [][\A p \in DOMAIN plans :
          (plans[p].status = "DRAFT" /\ plans'[p].status # "DRAFT") => SubmitOf(p)]_vars

\* C29: the status of a plan is changed only by a submit and by a review that
\* carries a status (get_upload_url, extract_columns, update_columns and a
\* comment-only review leave it), and no plan leaves DRAFT but by a submit.
C29_PlanStatusChangedBySubmitOrReview ==
    PlanStatusFrame /\ LeavesDraftBySubmit

\* C30: a brief is ACTIVE when created, and the status of a brief changes only
\* in a review that carries a status of one of its plans: create_brief,
\* get_upload_url, extract_columns, update_columns, submit_plan and a
\* comment-only review leave the status of every brief as it was.
C30_BriefStatusChangedByStatusReview ==
    [][/\ \A b \in DOMAIN briefs' \ DOMAIN briefs : briefs'[b].status = "ACTIVE"
       /\ \A b \in DOMAIN briefs :
            briefs'[b].status # briefs[b].status =>
                \E user \in CurrentUsers, p \in PlansOfBrief(b), review \in StatusReviews :
                    review_plan(user, b, p, review)]_vars

\* a brief that a review has approved, next to a brief created after it whose
\* plan was submitted: the brief approved stayed so, the other is still ACTIVE
C30_Witness ==
    \E b1, b2 \in BriefIds :
        /\ b1 < b2
        /\ briefs[b1].status = "APPROVED"
        /\ briefs[b2].status = "ACTIVE"
        /\ \E p \in PlansOfBrief(b2) : plans[p].status = "PENDING_REVIEW"

\* C31: a review that asks for the status the plan already has leaves the status
\* of the plan, and the status, updated_by and updated_at of its brief, as they were.
C31_SameStatusReviewLeavesBrief ==
    [][\A user \in CurrentUsers, b \in BriefIdArgs, p \in PlanIdArgs, review \in StatusReviews :
          (review_plan(user, b, p, review) /\ review.status = plans[p].status) =>
              /\ plans'[p].status = plans[p].status
              /\ briefs'[b].status = briefs[b].status
              /\ briefs'[b].updated_by = briefs[b].updated_by
              /\ briefs'[b].updated_at = briefs[b].updated_at]_vars

\* C32: the sheet that the transformer of update_columns hands on is the flat
\* artifact of the plan with the merged mapping written over row 1: the flat
\* blob is there, and no row of it was moved or removed.
C32_UpdateWorksOnFlatArtifact ==
    [][\A r \in DOMAIN reqs :
          (reqs[r].kind = "update" /\ rename_headers(r)) =>
              LET flat == FlatPath(reqs[r].brief_id, reqs[r].plan_id)
              IN  /\ Exists(blobs, flat)
                  /\ reqs'[r].ws = RenameHeaders(blobs[flat].cells,
                                                 mappings_argument(reqs[r]))]_vars

\* the stages of the agency pipeline that plan p has on record
UploadRequested(p) == plans[p].raw_file_path # NoPath
Extracted(p) == plans[p].flat_file_path # NoPath /\ plans[p].ai_mappings # NoDict
Validated(p) == plans[p].validated_column_file_path # NoPath

\* C33: a submit of a plan is accepted only after get_upload_url, extract_columns
\* and update_columns have succeeded for it, in this order, and no plan is
\* PENDING_REVIEW without a validated artifact on record.
C33_SubmitFollowsPipeline ==
    /\ [](\A p \in PlanIds : plans[p].status = "PENDING_REVIEW" => Validated(p))
    /\ [][\A p \in DOMAIN plans :
             SubmitOf(p) => UploadRequested(p) /\ Extracted(p) /\ Validated(p)]_vars

\* C34: in every reachable state the paths of a plan are on record in the order
\* of the stages: a validated path only with a flat path and an AI mapping, a
\* flat path only with a raw path.
C34_PathsFilledInStageOrder ==
    \A p \in PlanIds :
        /\ Validated(p) => Extracted(p)
        /\ plans[p].flat_file_path # NoPath => UploadRequested(p)

\* the blob path {root}/{brief_id}/{plan_id}/{stage}/{name}
StagePath(b, p, stage, name) == <<"brief_media_files", b, p, stage, name>>

\* the paths plan p has on record
RecordedPaths(p) ==
    {plans[p].raw_file_path, plans[p].flat_file_path,
     plans[p].validated_column_file_path, plans[p].plan_file_url} \ {NoPath}

\* the recorded paths of plan p are those of its brief and its id, the validated
\* one having the stage name `validated_stage`; no path is shared by two plans
PathsFollowConvention(validated_stage) ==
    /\ \A p \in PlanIds :
          LET b == plans[p].brief_id
          IN  /\ plans[p].raw_file_path \in {NoPath, StagePath(b, p, "raw", "plan.xlsx")}
              /\ plans[p].flat_file_path \in {NoPath, StagePath(b, p, "flat", "plan_flat.xlsx")}
              /\ plans[p].validated_column_file_path
                    \in {NoPath, StagePath(b, p, validated_stage, "plan_final.xlsx")}
    /\ \A p, q \in PlanIds : p # q => RecordedPaths(p) \cap RecordedPaths(q) = {}

NoRawBlob(r) ==
    /\ ~Exists(blobs, RawPath(reqs[r].brief_id, reqs[r].plan_id))
    /\ ~Exists(blobs, OldRawPath(reqs[r].brief_id, reqs[r].plan_id))

\* request r is through with its downloads
DownloadsOver(r) == reqs[r].pc \notin {"download", "download_old"}

\* C36: extract_columns works on the raw blob under its current name or, after
\* that read has failed, under the older name; when the blob is under neither
\* name the request ends with 404 and changes no plan, history entry or blob.
C36_ExtractNeedsRawBlob ==
    /\ [](\A r \in DOMAIN reqs :
            (reqs[r].kind = "extract" /\ DownloadsOver(r)) =>
                IF NoRawBlob(r)
                THEN reqs[r].pc = "done" /\ reqs[r].code = 404
                ELSE \/ reqs[r].pc = "done" /\ reqs[r].code = 404
                     \/ /\ Exists(blobs, reqs[r].raw_blob_name)
                        /\ reqs[r].raw_blob_name
                              \in {RawPath(reqs[r].brief_id, reqs[r].plan_id),
                                   OldRawPath(reqs[r].brief_id, reqs[r].plan_id)})
    /\ [][\A r \in DOMAIN reqs :
             (reqs[r].kind = "extract" /\ NoRawBlob(r) /\ reqs'[r] # reqs[r]) =>
                 UNCHANGED <<plans, history, blobs>>]_vars

\* an extract request that found the raw sheet under neither name and has ended
C36_Witness ==
    \E r \in DOMAIN reqs :
        /\ reqs[r].kind = "extract" /\ NoRawBlob(r)
        /\ reqs[r].pc = "done" /\ reqs[r].code = 404

\* an extract request that read the sheet under the older name and has recorded
\* the flat artifact
C36_OlderNameRead ==
    \E r \in DOMAIN reqs :
        /\ reqs[r].kind = "extract"
        /\ reqs[r].raw_blob_name = OldRawPath(reqs[r].brief_id, reqs[r].plan_id)
        /\ plans[reqs[r].plan_id].flat_file_path # NoPath

\* C37: a call of get_signed_url makes one signing attempt at most, and a call
\* whose remote signing attempt has failed ends with the failure: it does not
\* go on to sign locally.
C37_NoSecondSigningAttempt ==
    \A c \in DOMAIN calls :
        /\ Cardinality(calls[c].attempted) <= 1
        /\ "remote" \in calls[c].attempted => calls[c].pc = "done"
        /\ (calls[c].pc = "done" /\ "remote" \in calls[c].attempted) =>
               \/ calls[c].result[1] = SignedUrl("remote", calls[c].email)
               \/ calls[c].result[1] = GCSOperationError

(***************************************************************************)
(* ReviewSpec: the calls of review_plan as the steps of their database     *)
(* sessions, overlapping. A session (autoflush off) keeps its changes to   *)
(* itself until db.commit(); a query answers with the committed rows, and  *)
(* with the session's own object for a row the session has loaded.         *)
(***************************************************************************)
\* the statuses the two plans have when the reviews begin: nothing reviewed yet
UnreviewedStatuses == {"DRAFT", "PENDING_REVIEW"}

\* plan = db.query(...).first(), the checks, and the changes to the loaded
\* plan, which stay in the session
review_read(current_user, brief_id, plan_id, review) ==
    /\ Len(reqs) < MaxRequests
    /\ review_plan_code(current_user, brief_id, plan_id, review) = 200
    /\ reqs' = Append(reqs,
          [kind |-> "review", user_id |-> current_user.id,
           brief_id |-> brief_id, plan_id |-> plan_id, review |-> review,
           old_status |-> plans[plan_id].status,
           brief_status |-> << >>, brief_updated_at |-> << >>,
           pc |-> IF RunsAggregation(current_user, review) THEN "aggregate" ELSE "commit",
           code |-> 0])
    /\ UNCHANGED <<gateway, briefs, plans, history, resp, local, blobs>>

\* the plans of the brief as the session of request r sees them: the committed
\* rows, and for the reviewed plan the object with the status of the request
all_plans(r) ==
    PlansIn([plans EXCEPT ![reqs[r].plan_id].status = reqs[r].review.status],
            reqs[r].brief_id)

\* brief = db.query(models.Brief)...first() and the block under `if brief:`;
\* the assignments to the brief stay in the session
review_aggregate(r) ==
    /\ reqs[r].pc = "aggregate"
    /\ IF reqs[r].brief_id \in BriefIds
       THEN LET loaded == briefs[reqs[r].brief_id].status
                status == AggregateStatus(loaded, all_plans(r))
            IN  reqs' = [reqs EXCEPT
                           ![r].brief_status = IF status # loaded THEN <<status>> ELSE << >>,
                           ![r].brief_updated_at = <<get_utc_now>>,
                           ![r].pc = "commit"]
       ELSE Goto(r, "commit")
    /\ UNCHANGED <<gateway, briefs, plans, history, resp, local, blobs>>

\* db.commit(): the UPDATE of the plan, the INSERT of the history entry and the
\* UPDATE of the brief with the columns the session has changed
review_commit(r) ==
    LET req == reqs[r]
        has_status_change == req.review.status # None
    IN  /\ req.pc = "commit"
        /\ plans' = [plans EXCEPT
                       ![req.plan_id].status = IF has_status_change THEN req.review.status ELSE @,
                       ![req.plan_id].updated_by = req.user_id]
        /\ history' =
             IF has_status_change
             THEN AddHistory(history, req.plan_id, "STATUS_CHANGE", req.user_id,
                             <<"Status changed", req.old_status, req.review.status>>,
                             req.review.comment)
             ELSE AddHistory(history, req.plan_id, "COMMENT_ADDED", req.user_id,
                             "A new comment was added to the plan history.",
                             req.review.comment)
        /\ briefs' =
             IF req.brief_updated_at # << >>
             THEN [briefs EXCEPT
                     ![req.brief_id].status =
                         IF req.brief_status # << >> THEN req.brief_status[1] ELSE @,
                     ![req.brief_id].updated_at = req.brief_updated_at[1],
                     ![req.brief_id].updated_by = req.user_id]
             ELSE briefs
        /\ reqs' = [reqs EXCEPT ![r].pc = "done", ![r].code = 200]
        /\ resp' = 200
        /\ UNCHANGED <<gateway, local, blobs>>

\* a brief of the client with a plan of each agency, no plan reviewed yet
ReviewInit ==
    LET ds == CHOOSE u \in DsGroupUsers : TRUE
    IN  /\ briefs = << [client_id |-> ds.client_id, status |-> "ACTIVE",
                        created_by |-> ds.id, updated_by |-> ds.id,
                        updated_at |-> None] >>
        /\ \E s1, s2 \in UnreviewedStatuses :
              plans = << [NewPlan(1, ID_AG_ALPHA, ds.id) EXCEPT !.status = s1],
                         [NewPlan(1, ID_AG_BETA, ds.id) EXCEPT !.status = s2] >>
        /\ history = << << HistoryEntry(1, "NEW_BRIEF_CREATED", ds.id,
                                        <<"assigned", agency_name(ID_AG_ALPHA)>>, None) >>,
                        << HistoryEntry(2, "NEW_BRIEF_CREATED", ds.id,
                                        <<"assigned", agency_name(ID_AG_BETA)>>, None) >> >>
        /\ resp = 200
        /\ reqs = << >>
        /\ local = << >>
        /\ blobs = << >>
        /\ _storage_client = << >>
        /\ constructed = 0
        /\ env = ManagedEnvironment
        /\ calls = << >>

ReviewNext ==
    \/ \E user \in CurrentUsers, b \in BriefIdArgs, p \in PlanIdArgs,
          review \in ReviewSubmissionRequest :
            review_read(user, b, p, review)
    \/ \E r \in DOMAIN reqs : review_aggregate(r)
    \/ \E r \in DOMAIN reqs : review_commit(r)

ReviewSpec == ReviewInit /\ [][ReviewNext]_vars

\* the requests are two reviews with a status, of two plans of one brief; they
\* may overlap, each reading the plans before the other has committed
OverlappingStatusReviews ==
    /\ Len(reqs) = 2
    /\ \A r \in DOMAIN reqs : reqs[r].kind = "review" /\ reqs[r].review.status # None
    /\ reqs[1].plan_id # reqs[2].plan_id
    /\ reqs[1].brief_id = reqs[2].brief_id

\* C38: when two reviews with a status of two plans of one brief have both
\* committed, the status of the brief is what the aggregation rule gives for
\* the statuses the plans have then: APPROVED when all are APPROVED, else
\* REJECTED when one is REJECTED.
C38_ConcurrentReviewsAggregate ==
    (OverlappingStatusReviews /\ \A r \in DOMAIN reqs : reqs[r].pc = "done") =>
        LET b == reqs[1].brief_id
        IN  briefs[b].status = AggregateStatus(briefs[b].status, PlansIn(plans, b))

BriefStatuses == {"ACTIVE", "APPROVED", "REJECTED"}
PlanStatuses == {"DRAFT", "PENDING_REVIEW", "APPROVED", "REJECTED"}

\* C39: a brief that is not ACTIVE is not ACTIVE after any step; the status of
\* a brief is always ACTIVE, APPROVED or REJECTED, and that of a plan always
\* DRAFT, PENDING_REVIEW, APPROVED or REJECTED.
C39_BriefNeverActiveAgain ==
    /\ [](/\ \A b \in BriefIds : briefs[b].status \in BriefStatuses
          /\ \A p \in PlanIds : plans[p].status \in PlanStatuses)
    /\ [][\A b \in DOMAIN briefs :
             briefs[b].status # "ACTIVE" => briefs'[b].status # "ACTIVE"]_vars

\* a brief that a review has rejected and whose rejected plan was submitted again
C39_Witness ==
    \E b \in BriefIds :
        /\ briefs[b].status = "REJECTED"
        /\ \E p \in PlansOfBrief(b) : plans[p].status = "PENDING_REVIEW"
        /\ \A p \in PlansOfBrief(b) : plans[p].status # "REJECTED"

\* the target fields a mapping (index to target) names
TargetsOf(mappings) == {mappings[j][2] : j \in 1..Len(mappings)}

\* C40: every target field of the mapped entries of the mapping service's
\* answer is the target of a column index in the mapping that extract_columns
\* applies and records, also when two entries have the same source_column_index.
C40_EveryMappedEntryKept ==
    \A r \in DOMAIN reqs :
        (reqs[r].kind = "extract" /\ reqs[r].pc \notin BeforeTransform
                                  /\ "mappings" \in DOMAIN reqs[r].agent_resp) =>
            \A i \in 1..Len(reqs[r].agent_resp.mappings) :
                reqs[r].agent_resp.mappings[i][2] \in TargetsOf(reqs[r].mappings)

====
